---- MODULE Spec2Model ----
(***************************************************************************)
(* Order pricing of the order-management dashboard.                        *)
(*                                                                         *)
(* The three order forms (the create-order page, the create-order dialog   *)
(* and the edit-order form) each recompute subtotal, discountAmount and    *)
(* totalAmount in a useMemo over the watched form values.  The module      *)
(* models the form values as JavaScript values, the built-in conversions   *)
(* the calculators apply to them (Number, parseFloat, parseInt, ||,        *)
(* Math.max, Math.min), the three calculators, and the input handlers of   *)
(* the create-order page and the edit-order form.                          *)
(*                                                                         *)
(* A JavaScript number is carried as an exact fixed-point integer: the     *)
(* field v holds Scale times the number, so 2.5 is v = 250.  The inputs    *)
(* drawn below are whole numbers, for which every product and every        *)
(* division by 100 of the calculators is exact in this representation.     *)
(***************************************************************************)
EXTENDS Integers, Sequences, FiniteSets, TLC

\* Fixed-point resolution of a number: hundredths (the inputs' step="0.01").
Scale == 100

\* ------------------------------------------------------------------------
\* Bounds of the model
\* ------------------------------------------------------------------------
\* Longest item list given to a calculator alone (CalcSpec).
MaxCalcItems == 2
\* Longest item list of an editing session (Spec).
MaxItems == 2
\* Cap on forceUpdateCounter, which the code increments without limit.
MaxCounter == 2
\* Cap on the number of requests one session sends.
MaxRequests == 2
\* Cap on the edits an operator makes while one request is pending.
MaxEditsInFlight == 1
\* Cap on the getOrders responses on their way at one time.
MaxFetches == 2
\* Cap on the updateOrderStatus requests one row sends.
MaxStatusRequests == 2
\* Cap on the deleteOrder requests the orders page sends.
MaxDeletes == 1

\* ------------------------------------------------------------------------
\* JavaScript values held in form state
\* ------------------------------------------------------------------------
Num(n) == [t |-> "number", nan |-> FALSE, v |-> n * Scale]
NaN == [t |-> "number", nan |-> TRUE, v |-> 0]
\* The decimal literal of the whole number n, e.g. "10" or "-5".
IntStr(n) == [t |-> "string", lit |-> "int", v |-> n * Scale]
\* The empty string ''.
EmptyStr == [t |-> "string", lit |-> "empty", v |-> 0]
\* A non-numeric string such as 'abc'.
JunkStr == [t |-> "string", lit |-> "junk", v |-> 0]
\* The text ".5": a valid value of a number input that has no integer digits.
HalfStr == [t |-> "string", lit |-> "half", v |-> Scale \div 2]
Undefined == [t |-> "undefined"]
Null == [t |-> "null"]

\* Number(x)
JsNumber(x) ==
    CASE x.t = "number" -> x
      [] x.t = "string" ->
            IF x.lit = "junk" THEN NaN
            ELSE [t |-> "number", nan |-> FALSE, v |-> x.v]
      [] x.t = "null" -> Num(0)
      [] OTHER -> NaN

\* parseFloat(x)
JsParseFloat(x) ==
    CASE x.t = "number" -> x
      [] x.t = "string" ->
            IF x.lit \in {"int", "half"}
            THEN [t |-> "number", nan |-> FALSE, v |-> x.v]
            ELSE NaN
      [] OTHER -> NaN

\* parseInt(x, 10): the leading integer digits, NaN when there are none.
JsParseInt(x) ==
    CASE x.t = "number" ->
            IF x.nan THEN NaN
            ELSE [t |-> "number", nan |-> FALSE,
                  v |-> IF x.v >= 0 THEN (x.v \div Scale) * Scale
                        ELSE -(((-x.v) \div Scale) * Scale)]
      [] x.t = "string" ->
            IF x.lit = "int"
            THEN [t |-> "number", nan |-> FALSE, v |-> x.v]
            ELSE NaN
      [] OTHER -> NaN

\* x.toString() of a number
JsToString(x) ==
    IF x.nan THEN JunkStr ELSE [t |-> "string", lit |-> "int", v |-> x.v]

\* Truthiness of a value: what !!x gives.
Truthy(x) ==
    CASE x.t = "number" -> ~x.nan /\ x.v # 0
      [] x.t = "string" -> x.lit # "empty"
      [] OTHER -> FALSE

\* x || y
OrElse(x, y) == IF Truthy(x) THEN x ELSE y

\* Arithmetic on numbers; NaN propagates.
JsAdd(a, b) ==
    IF a.nan \/ b.nan THEN NaN
    ELSE [t |-> "number", nan |-> FALSE, v |-> a.v + b.v]

JsSub(a, b) ==
    IF a.nan \/ b.nan THEN NaN
    ELSE [t |-> "number", nan |-> FALSE, v |-> a.v - b.v]

\* The product is formed from a whole factor where there is one, which keeps
\* the intermediate value small; the result is the same.
JsMul(a, b) ==
    IF a.nan \/ b.nan THEN NaN
    ELSE [t |-> "number", nan |-> FALSE,
          v |-> IF a.v % Scale = 0 THEN (a.v \div Scale) * b.v
                ELSE IF b.v % Scale = 0 THEN a.v * (b.v \div Scale)
                ELSE (a.v * b.v) \div Scale]

JsDiv(a, b) ==
    IF a.nan \/ b.nan \/ b.v = 0 THEN NaN
    ELSE [t |-> "number", nan |-> FALSE,
          v |-> IF b.v % Scale = 0 THEN a.v \div (b.v \div Scale)
                ELSE (a.v * Scale) \div b.v]

\* a > b: false when either side is NaN.
JsGt(a, b) == ~a.nan /\ ~b.nan /\ a.v > b.v

MathMax(a, b) ==
    IF a.nan \/ b.nan THEN NaN ELSE IF a.v >= b.v THEN a ELSE b

MathMin(a, b) ==
    IF a.nan \/ b.nan THEN NaN ELSE IF a.v <= b.v THEN a ELSE b

\* ------------------------------------------------------------------------
\* The three pricing calculators
\* ------------------------------------------------------------------------
\* A discount type is one of the strings below; "null" and "undefined" stand
\* for the JavaScript values null and undefined (no type chosen).
\* --- create-order page (pages/CreateOrderPage.tsx) ---
\* Mutant of CreateOrderPage_currentSubtotal: the unit price is used without
\* the "|| 0" fallback, so a non-numeric price reaches the sum as NaN.
RECURSIVE CreateOrderPage_currentSubtotal_PriceNotCoerced(_)
CreateOrderPage_currentSubtotal_PriceNotCoerced(watchedItems) ==
    IF watchedItems = << >> THEN Num(0)
    ELSE LET n == Len(watchedItems)
             item == watchedItems[n]
             acc == CreateOrderPage_currentSubtotal_PriceNotCoerced(
                        SubSeq(watchedItems, 1, n - 1))
             quantity == OrElse(JsNumber(item.quantity), Num(0))
             price == JsNumber(item.unitPrice)
         IN  JsAdd(acc, JsMul(quantity, price))

\* Mutant of CreateOrderPage_currentSubtotal: the quantity is left out of
\* the line total (acc + price).
RECURSIVE CreateOrderPage_currentSubtotal_QuantityIgnored(_)
CreateOrderPage_currentSubtotal_QuantityIgnored(watchedItems) ==
    IF watchedItems = << >> THEN Num(0)
    ELSE LET n == Len(watchedItems)
             item == watchedItems[n]
             acc == CreateOrderPage_currentSubtotal_QuantityIgnored(
                        SubSeq(watchedItems, 1, n - 1))
             price == OrElse(JsNumber(item.unitPrice), Num(0))
         IN  JsAdd(acc, price)

\* CreateOrderPage: watchedItems.reduce((acc, item) => acc + quantity * price, 0)
RECURSIVE CreateOrderPage_currentSubtotal(_)
CreateOrderPage_currentSubtotal(watchedItems) ==
    IF watchedItems = << >> THEN Num(0)
    ELSE LET n == Len(watchedItems)
             item == watchedItems[n]
             acc == CreateOrderPage_currentSubtotal(SubSeq(watchedItems, 1, n - 1))
             quantity == OrElse(JsNumber(item.quantity), Num(0))
             price == OrElse(JsNumber(item.unitPrice), Num(0))
         IN  JsAdd(acc, JsMul(quantity, price))

\* Mutant of CreateOrderPage_currentDiscountAmount: the percentage is not
\* divided by 100.
CreateOrderPage_currentDiscountAmount_PercentNotDivided(currentSubtotal, watchedDiscountType, watchedDiscountValueInput) ==
    LET discountValue ==
            JsParseFloat(OrElse(watchedDiscountValueInput, IntStr(0)))
        chosen ==
            IF watchedDiscountType = "percentage" /\ JsGt(discountValue, Num(0))
            THEN JsMul(currentSubtotal, discountValue)
            ELSE IF watchedDiscountType = "fixed" /\ JsGt(discountValue, Num(0))
            THEN discountValue
            ELSE Num(0)
    IN  MathMax(Num(0), MathMin(chosen, currentSubtotal))

\* CreateOrderPage: the discount for the watched type and value, clamped to
\* [0, currentSubtotal] by Math.max(0, Math.min(..., currentSubtotal)).
CreateOrderPage_currentDiscountAmount(currentSubtotal, watchedDiscountType, watchedDiscountValueInput) ==
    LET discountValue ==
            JsParseFloat(OrElse(watchedDiscountValueInput, IntStr(0)))
        chosen ==
            IF watchedDiscountType = "percentage" /\ JsGt(discountValue, Num(0))
            THEN JsDiv(JsMul(currentSubtotal, discountValue), Num(100))
            ELSE IF watchedDiscountType = "fixed" /\ JsGt(discountValue, Num(0))
            THEN discountValue
            ELSE Num(0)
    IN  MathMax(Num(0), MathMin(chosen, currentSubtotal))

\* Mutant of CreateOrderPage_shipping: the trailing "|| 0" is missing, so an
\* unparseable shipping fee stays NaN.
CreateOrderPage_shipping_NotCoerced(watchedShippingFeeInput) ==
    JsParseFloat(OrElse(watchedShippingFeeInput, IntStr(0)))

\* CreateOrderPage: parseFloat(watchedShippingFeeInput || '0') || 0
CreateOrderPage_shipping(watchedShippingFeeInput) ==
    OrElse(JsParseFloat(OrElse(watchedShippingFeeInput, IntStr(0))), Num(0))

\* Mutant of CreateOrderPage_useMemo: the shipping fee is left out of the
\* total.
CreateOrderPage_useMemo_ShippingDropped(watchedItems, watchedDiscountType, watchedDiscountValueInput, watchedShippingFeeInput) ==
    LET currentSubtotal == CreateOrderPage_currentSubtotal(watchedItems)
        currentDiscountAmount ==
            CreateOrderPage_currentDiscountAmount(currentSubtotal,
                watchedDiscountType, watchedDiscountValueInput)
        currentTotalAmount == JsSub(currentSubtotal, currentDiscountAmount)
    IN  [subtotal |-> currentSubtotal,
         discountAmount |-> currentDiscountAmount,
         totalAmount |-> currentTotalAmount]

\* CreateOrderPage: the useMemo that yields subtotal, discountAmount, totalAmount.
CreateOrderPage_useMemo(watchedItems, watchedDiscountType, watchedDiscountValueInput, watchedShippingFeeInput) ==
    LET currentSubtotal == CreateOrderPage_currentSubtotal(watchedItems)
        currentDiscountAmount ==
            CreateOrderPage_currentDiscountAmount(currentSubtotal,
                watchedDiscountType, watchedDiscountValueInput)
        shipping == CreateOrderPage_shipping(watchedShippingFeeInput)
        currentTotalAmount ==
            JsAdd(JsSub(currentSubtotal, currentDiscountAmount), shipping)
    IN  [subtotal |-> currentSubtotal,
         discountAmount |-> currentDiscountAmount,
         totalAmount |-> currentTotalAmount]

\* --- create-order dialog (components/orders/CreateOrderForm.tsx) ---
\* CreateOrderForm: watchedItems.reduce((acc, item) => acc + quantity * price, 0)
RECURSIVE CreateOrderForm_currentSubtotal(_)
CreateOrderForm_currentSubtotal(watchedItems) ==
    IF watchedItems = << >> THEN Num(0)
    ELSE LET n == Len(watchedItems)
             item == watchedItems[n]
             acc == CreateOrderForm_currentSubtotal(SubSeq(watchedItems, 1, n - 1))
             quantity == OrElse(JsNumber(item.quantity), Num(0))
             price == OrElse(JsNumber(item.unitPrice), Num(0))
         IN  JsAdd(acc, JsMul(quantity, price))

\* Mutant of CreateOrderForm_currentDiscountAmount: the value is tested with
\* "!== 0" instead of "> 0", which lets a NaN value through.
CreateOrderForm_currentDiscountAmount_ValueTestedNonZero(currentSubtotal, watchedDiscountType, watchedDiscountValueInput) ==
    LET discountValue ==
            JsParseFloat(OrElse(watchedDiscountValueInput, IntStr(0)))
        chosen ==
            IF watchedDiscountType = "percentage" /\ discountValue # Num(0)
            THEN JsDiv(JsMul(currentSubtotal, discountValue), Num(100))
            ELSE IF watchedDiscountType = "fixed" /\ discountValue # Num(0)
            THEN discountValue
            ELSE Num(0)
    IN  MathMax(Num(0), MathMin(chosen, currentSubtotal))

\* CreateOrderForm: the discount for the watched type and value, clamped to
\* [0, currentSubtotal] by Math.max(0, Math.min(..., currentSubtotal)).
CreateOrderForm_currentDiscountAmount(currentSubtotal, watchedDiscountType, watchedDiscountValueInput) ==
    LET discountValue ==
            JsParseFloat(OrElse(watchedDiscountValueInput, IntStr(0)))
        chosen ==
            IF watchedDiscountType = "percentage" /\ JsGt(discountValue, Num(0))
            THEN JsDiv(JsMul(currentSubtotal, discountValue), Num(100))
            ELSE IF watchedDiscountType = "fixed" /\ JsGt(discountValue, Num(0))
            THEN discountValue
            ELSE Num(0)
    IN  MathMax(Num(0), MathMin(chosen, currentSubtotal))

\* CreateOrderForm: parseFloat(watchedShippingFeeInput || '0') || 0
CreateOrderForm_shipping(watchedShippingFeeInput) ==
    OrElse(JsParseFloat(OrElse(watchedShippingFeeInput, IntStr(0))), Num(0))

\* CreateOrderForm: the useMemo that yields subtotal, discountAmount, totalAmount.
CreateOrderForm_useMemo(watchedItems, watchedDiscountType, watchedDiscountValueInput, watchedShippingFeeInput) ==
    LET currentSubtotal == CreateOrderForm_currentSubtotal(watchedItems)
        currentDiscountAmount ==
            CreateOrderForm_currentDiscountAmount(currentSubtotal,
                watchedDiscountType, watchedDiscountValueInput)
        shipping == CreateOrderForm_shipping(watchedShippingFeeInput)
        currentTotalAmount ==
            JsAdd(JsSub(currentSubtotal, currentDiscountAmount), shipping)
    IN  [subtotal |-> currentSubtotal,
         discountAmount |-> currentDiscountAmount,
         totalAmount |-> currentTotalAmount]

\* --- edit-order form (components/orders/CustomerSelector.tsx) ---
\* EditOrderForm: watchedItems.reduce((acc, item) => acc + quantity * price, 0)
RECURSIVE EditOrderForm_currentSubtotal(_)
EditOrderForm_currentSubtotal(watchedItems) ==
    IF watchedItems = << >> THEN Num(0)
    ELSE LET n == Len(watchedItems)
             item == watchedItems[n]
             acc == EditOrderForm_currentSubtotal(SubSeq(watchedItems, 1, n - 1))
             quantity == OrElse(JsNumber(item.quantity), Num(0))
             price == OrElse(JsNumber(item.unitPrice), Num(0))
         IN  JsAdd(acc, JsMul(quantity, price))

\* Mutant of EditOrderForm_currentDiscountAmount: the discount type is not
\* looked at, so a value left in the input still counts as a fixed discount.
EditOrderForm_currentDiscountAmount_TypeIgnored(currentSubtotal, watchedDiscountType, watchedDiscountValueInput) ==
    LET discountValue ==
            JsParseFloat(OrElse(watchedDiscountValueInput, IntStr(0)))
        chosen ==
            IF watchedDiscountType = "percentage" /\ JsGt(discountValue, Num(0))
            THEN JsDiv(JsMul(currentSubtotal, discountValue), Num(100))
            ELSE IF JsGt(discountValue, Num(0))
            THEN discountValue
            ELSE Num(0)
    IN  MathMax(Num(0), MathMin(chosen, currentSubtotal))

\* EditOrderForm: the discount for the watched type and value, clamped to
\* [0, currentSubtotal] by Math.max(0, Math.min(..., currentSubtotal)).
EditOrderForm_currentDiscountAmount(currentSubtotal, watchedDiscountType, watchedDiscountValueInput) ==
    LET discountValue ==
            JsParseFloat(OrElse(watchedDiscountValueInput, IntStr(0)))
        chosen ==
            IF watchedDiscountType = "percentage" /\ JsGt(discountValue, Num(0))
            THEN JsDiv(JsMul(currentSubtotal, discountValue), Num(100))
            ELSE IF watchedDiscountType = "fixed" /\ JsGt(discountValue, Num(0))
            THEN discountValue
            ELSE Num(0)
    IN  MathMax(Num(0), MathMin(chosen, currentSubtotal))

\* Mutant of EditOrderForm_shipping: the edit form alone clamps a negative
\* shipping fee to 0.
EditOrderForm_shipping_Clamped(watchedShippingFeeInput) ==
    MathMax(Num(0), OrElse(JsParseFloat(OrElse(watchedShippingFeeInput, IntStr(0))), Num(0)))

\* EditOrderForm: parseFloat(watchedShippingFeeInput || '0') || 0
EditOrderForm_shipping(watchedShippingFeeInput) ==
    OrElse(JsParseFloat(OrElse(watchedShippingFeeInput, IntStr(0))), Num(0))

\* EditOrderForm: the useMemo that yields subtotal, discountAmount, totalAmount.
EditOrderForm_useMemo(watchedItems, watchedDiscountType, watchedDiscountValueInput, watchedShippingFeeInput) ==
    LET currentSubtotal == EditOrderForm_currentSubtotal(watchedItems)
        currentDiscountAmount ==
            EditOrderForm_currentDiscountAmount(currentSubtotal,
                watchedDiscountType, watchedDiscountValueInput)
        shipping == EditOrderForm_shipping(watchedShippingFeeInput)
        currentTotalAmount ==
            JsAdd(JsSub(currentSubtotal, currentDiscountAmount), shipping)
    IN  [subtotal |-> currentSubtotal,
         discountAmount |-> currentDiscountAmount,
         totalAmount |-> currentTotalAmount]

\* ------------------------------------------------------------------------
\* State
\* ------------------------------------------------------------------------
VARIABLES
    page,                \* the form that is mounted, "unmounted" before
    items,               \* form value items
    discountType,        \* form value discountType
    discountValueInput,  \* form value discountValueInput
    shippingFeeInput,    \* form value shippingFeeInput
    forceUpdateCounter,  \* useState counter the handlers bump
    subtotal,            \* what the last render's useMemo returned
    discountAmount,
    totalAmount,
    customerId,          \* form value customerId
    mutationStatus,      \* status of the useMutation: idle, pending, error
    inFlight,            \* the request handed to createOrder / updateOrder
    requestCount,        \* requests sent so far
    editsInFlight,       \* edits made since the request in flight was sent
    orderDraft,          \* localStorage entry 'order-draft'
    peerForm,            \* form values of a second create-order session
    products,            \* the product query's data the selectors offer
    customerDisplayValue, \* useState: the customer name shown in the selector
    \* AuthProvider, ProtectedRoute and the routes of App
    authLoading,         \* AuthProvider useState loading
    user,                \* AuthProvider useState user: its role, or "null"
    storedUser,          \* localStorage entry 'stockpilot-user'
    storedToken,         \* localStorage entry 'stockpilot-token' is present
    location,            \* the router's location.pathname
    fromPath,            \* location.state.from.pathname, or "none"
    screen,              \* what the routes rendered last
    \* OrdersPage
    currentPage,         \* useState currentPage
    totalPages,          \* useState totalPages
    itemsPerPage,        \* useState itemsPerPage
    ordersLength,        \* orders.length of useState orders
    isLoading,           \* useState isLoading: the table is replaced while true
    statusInput,         \* useState statusInput of the filter card
    appliedStatus,       \* appliedFilters.status
    fetching,            \* getOrders responses on their way to the page
    deleting,            \* deleteOrder requests not yet settled
    deleteCount,         \* deleteOrder requests sent so far
    serverTotal,         \* orders the server holds
    \* OrderStatusActionButton of one row of the table
    orderStatus,         \* order.status of the row as the list fetched it
    isAlertOpen,         \* useState isAlertOpen
    targetStatus,        \* useState targetStatus, or "null"
    isUpdatingStatus,    \* useState isUpdatingStatus
    statusRequests,      \* updateOrderStatus requests not yet settled
    statusRequestCount,  \* updateOrderStatus requests sent so far
    serverStatus         \* the status of the row's order on the server

\* const ITEMS_PER_PAGE_OPTIONS = [10, 20, 50, 100]: the two smallest.
ITEMS_PER_PAGE_OPTIONS == {10, 20}
DEFAULT_ITEMS_PER_PAGE == 10

authVars == <<authLoading, user, storedUser, storedToken, location, fromPath,
              screen>>
listVars == <<currentPage, totalPages, itemsPerPage, ordersLength,
              statusInput, appliedStatus, deleting, deleteCount, serverTotal>>
statusVars == <<orderStatus, isAlertOpen, targetStatus, isUpdatingStatus,
                statusRequests, statusRequestCount, serverStatus>>
appVars == <<authVars, listVars, fetching, isLoading, statusVars>>

\* A signed-in session with the orders list at rest: the forms are used
\* from here.
AuthIdle ==
    /\ authLoading = FALSE
    /\ user = "employee"
    /\ storedUser = "employee"
    /\ storedToken = TRUE
    /\ location = "/orders"
    /\ fromPath = "none"
    /\ screen = "OrdersPage"

ListIdle ==
    /\ currentPage = 1
    /\ totalPages = 1
    /\ itemsPerPage = DEFAULT_ITEMS_PER_PAGE
    /\ ordersLength = 0
    /\ statusInput = "all"
    /\ appliedStatus = "all"
    /\ deleting = {}
    /\ deleteCount = 0
    /\ serverTotal = 0

StatusIdle ==
    /\ orderStatus = "pending"
    /\ isAlertOpen = FALSE
    /\ targetStatus = "null"
    /\ isUpdatingStatus = FALSE
    /\ statusRequests = {}
    /\ statusRequestCount = 0
    /\ serverStatus = "pending"

AppIdle ==
    /\ AuthIdle
    /\ ListIdle
    /\ fetching = {}
    /\ isLoading = FALSE
    /\ StatusIdle

vars == <<page, items, discountType, discountValueInput, shippingFeeInput,
          forceUpdateCounter, subtotal, discountAmount, totalAmount,
          customerId, mutationStatus, inFlight, requestCount,
          editsInFlight, orderDraft, peerForm, products,
          customerDisplayValue, appVars>>

formVars == <<page, items, discountType, discountValueInput, shippingFeeInput,
              forceUpdateCounter, subtotal, discountAmount, totalAmount,
              customerId, mutationStatus, inFlight, requestCount,
              editsInFlight, orderDraft, peerForm, products,
              customerDisplayValue>>

mutationVars == <<mutationStatus, inFlight, requestCount>>

\* An edit of the form leaves the mutation alone: the inputs stay enabled
\* while a request is pending.  The edits made while one request is pending
\* are counted and capped.
EditInFlight ==
    /\ mutationStatus = "pending" => editsInFlight < MaxEditsInFlight
    /\ editsInFlight' = IF mutationStatus = "pending" THEN editsInFlight + 1
                        ELSE editsInFlight
    /\ UNCHANGED mutationVars

SeqsUpTo(S, n) == UNION {[1..k -> S] : k \in 0..n}

\* No request on the wire.
NoRequest == [kind |-> "none"]
\* The second session is not open.
NoSession == [t |-> "closed"]

\* The render of the mounted form.  useMemo runs its function again only when
\* one of its dependencies [watchedItems, watchedDiscountType,
\* watchedDiscountValueInput, watchedShippingFeeInput, forceUpdateCounter]
\* differs from the previous render's; otherwise it returns the values it
\* holds.  watchedItems is compared by reference: react-hook-form writes a
\* field of an item into the same array (setValue, field.onChange), and puts
\* a new array in place on append, remove and reset (itemsArrayReplaced).
\* Mutant of Render: forceUpdateCounter is not among the dependencies.
Render_CounterNotInDeps(p, its, dt, dv, sh, itemsArrayReplaced, counter) ==
    LET memo == CASE p = "createPage" -> CreateOrderPage_useMemo(its, dt, dv, sh)
                  [] p = "createDialog" -> CreateOrderForm_useMemo(its, dt, dv, sh)
                  [] p = "editForm" -> EditOrderForm_useMemo(its, dt, dv, sh)
        depsChanged == \/ itemsArrayReplaced
                       \/ dt # discountType
                       \/ dv # discountValueInput
                       \/ sh # shippingFeeInput
    IN  IF depsChanged
        THEN /\ subtotal' = memo.subtotal
             /\ discountAmount' = memo.discountAmount
             /\ totalAmount' = memo.totalAmount
        ELSE UNCHANGED <<subtotal, discountAmount, totalAmount>>

\* Mutant of Render: the recomputation counter leaks into the result.
Render_CounterInResult(p, its, dt, dv, sh, itemsArrayReplaced, counter) ==
    LET memo == CASE p = "createPage" -> CreateOrderPage_useMemo(its, dt, dv, sh)
                  [] p = "createDialog" -> CreateOrderForm_useMemo(its, dt, dv, sh)
                  [] p = "editForm" -> EditOrderForm_useMemo(its, dt, dv, sh)
        depsChanged == \/ itemsArrayReplaced
                       \/ dt # discountType
                       \/ dv # discountValueInput
                       \/ sh # shippingFeeInput
                       \/ counter # forceUpdateCounter
    IN  IF depsChanged
        THEN /\ subtotal' = memo.subtotal
             /\ discountAmount' = memo.discountAmount
             /\ totalAmount' = JsAdd(memo.totalAmount, Num(counter))
        ELSE UNCHANGED <<subtotal, discountAmount, totalAmount>>

Render(p, its, dt, dv, sh, itemsArrayReplaced, counter) ==
    LET memo == CASE p = "createPage" -> CreateOrderPage_useMemo(its, dt, dv, sh)
                  [] p = "createDialog" -> CreateOrderForm_useMemo(its, dt, dv, sh)
                  [] p = "editForm" -> EditOrderForm_useMemo(its, dt, dv, sh)
        depsChanged == \/ itemsArrayReplaced
                       \/ dt # discountType
                       \/ dv # discountValueInput
                       \/ sh # shippingFeeInput
                       \/ counter # forceUpdateCounter
    IN  IF depsChanged
        THEN /\ subtotal' = memo.subtotal
             /\ discountAmount' = memo.discountAmount
             /\ totalAmount' = memo.totalAmount
        ELSE UNCHANGED <<subtotal, discountAmount, totalAmount>>

\* The product catalog the selector offers.
Products ==
    {[_id |-> "p1", name |-> "A", price |-> Num(100)],
     [_id |-> "p2", name |-> "B", price |-> Num(50)]}

\* ------------------------------------------------------------------------
\* CalcSpec: each calculator applied once to form values drawn from
\* bounded sets that include malformed and negative entries.
\* ------------------------------------------------------------------------
CalcQuantities == {Num(1), Num(2), EmptyStr}
CalcPrices == {Num(100), Num(50), Num(-10), EmptyStr, JunkStr, Undefined}
CalcDiscountTypes == {"null", "undefined", "none", "percentage", "fixed"}
CalcDiscountValues ==
    {EmptyStr, IntStr(0), IntStr(10), IntStr(100), IntStr(500), IntStr(-5),
     JunkStr, Undefined}
CalcShippingFees == {EmptyStr, IntStr(20), IntStr(-30), JunkStr, Undefined}

CalcItems ==
    {[productId |-> "p1", productName |-> "A", quantity |-> q, unitPrice |-> p] :
        q \in CalcQuantities, p \in CalcPrices}

CalcInit ==
    /\ page = "unmounted"
    /\ items \in SeqsUpTo(CalcItems, MaxCalcItems)
    /\ discountType \in CalcDiscountTypes
    /\ discountValueInput \in CalcDiscountValues
    /\ shippingFeeInput \in CalcShippingFees
    /\ forceUpdateCounter = 0
    /\ subtotal = Num(0)
    /\ discountAmount = Num(0)
    /\ totalAmount = Num(0)
    /\ customerId = ""
    /\ mutationStatus = "idle"
    /\ inFlight = NoRequest
    /\ requestCount = 0
    /\ editsInFlight = 0
    /\ orderDraft = Null
    /\ peerForm = NoSession
    /\ products = Products
    /\ customerDisplayValue = ""
    /\ AppIdle

\* The first render of a form: useMemo computes its value.
CalcRender(p) ==
    /\ page = "unmounted"
    /\ page' = p
    /\ Render(p, items, discountType, discountValueInput, shippingFeeInput,
              TRUE, forceUpdateCounter)
    /\ UNCHANGED <<items, discountType, discountValueInput, shippingFeeInput,
                   forceUpdateCounter, customerId, mutationVars, editsInFlight, orderDraft,
                   peerForm>>
    /\ UNCHANGED <<products, customerDisplayValue, appVars>>

RenderCreateOrderPage == CalcRender("createPage")
RenderCreateOrderForm == CalcRender("createDialog")
RenderEditOrderForm == CalcRender("editForm")

CalcNext ==
    \/ RenderCreateOrderPage
    \/ RenderCreateOrderForm
    \/ RenderEditOrderForm

CalcSpec == CalcInit /\ [][CalcNext]_vars

\* ------------------------------------------------------------------------
\* Spec: an editing session of the create-order page or of the edit-order
\* form, driven by the input handlers and the submit button.  Every handler
\* ends in a re-render of the form.
\* ------------------------------------------------------------------------
\* Texts an operator leaves in the number inputs (e.target.value): a number
\* input yields '' for anything that is not a valid number.
QuantityTexts == {EmptyStr, IntStr(2), HalfStr}
PriceTexts == {EmptyStr, IntStr(-10)}
DiscountTexts == {EmptyStr, IntStr(10), IntStr(500)}
ShippingTexts == {EmptyStr, IntStr(20), IntStr(-30)}

\* append({productId, productName, quantity: 1, unitPrice: product.price})
NewItem(product) ==
    [productId |-> product._id, productName |-> product.name,
     quantity |-> Num(1), unitPrice |-> product.price]

RemoveAt(seq, index) ==
    SubSeq(seq, 1, index - 1) \o SubSeq(seq, index + 1, Len(seq))

\* --- the draft kept in localStorage under 'order-draft' ---
\* JSON.stringify writes NaN as null.
JsonValue(x) == IF x.t = "number" /\ x.nan THEN Null ELSE x

\* JSON.parse(JSON.stringify({...value, customerDisplayValue, timestamp})):
\* the form values as they come back from storage.
DraftOf(value) ==
    [t |-> "draft",
     customerId |-> value.customerId,
     customerDisplayValue |-> value.customerDisplayValue,
     items |-> [k \in DOMAIN value.items |->
                   [value.items[k] EXCEPT !.quantity = JsonValue(@),
                                          !.unitPrice = JsonValue(@)]],
     discountType |-> value.discountType,
     discountValueInput |-> value.discountValueInput,
     shippingFeeInput |-> value.shippingFeeInput]

\* localStorage.setItem('order-draft', ...) from the form.watch subscription,
\* which runs on every change of a form value.  The callback was created by
\* the effect of the last render, so the customerDisplayValue it writes is
\* the one of that render.
SaveDraft(cid, its, dt, dv, sh) ==
    orderDraft' = DraftOf([customerId |-> cid,
                           customerDisplayValue |-> customerDisplayValue,
                           items |-> its, discountType |-> dt,
                           discountValueInput |-> dv, shippingFeeInput |-> sh])

\* useForm defaultValues of the create-order page.
CreateOrderPage_defaultValues ==
    [customerId |-> "", items |-> << >>, discountType |-> "null",
     discountValueInput |-> EmptyStr, shippingFeeInput |-> EmptyStr]

\* The load effect: getItem('order-draft'); a stored text that parses is
\* given to form.reset, which makes it the form values (a field the draft
\* lacks is undefined afterwards); no entry (null) and a text JSON.parse
\* rejects leave the default values.
CreateOrderPage_loadDraft(savedDraft) ==
    IF savedDraft.t = "draft"
    THEN [k \in DOMAIN savedDraft \ {"t"} |-> savedDraft[k]]
    ELSE CreateOrderPage_defaultValues

\* form.watch("items") is undefined when the form values hold no items, and
\* watchedItems.reduce(...) then throws a TypeError.
ReduceThrows(value) == "items" \notin DOMAIN value

\* setCustomerDisplayValue(draft.customerDisplayValue || ''); without a
\* draft the state keeps its initial ''.
DisplayValueOf(value) ==
    IF "customerDisplayValue" \in DOMAIN value THEN value.customerDisplayValue
    ELSE ""

\* --- validation on submit ---
\* The browser's constraint validation of the number inputs, which precedes
\* the submit event: an input whose value is below its min attribute blocks
\* the submission.  The value an input shows is the form value; a value that
\* is no number (empty, NaN) is no underflow and is left to the resolver.
RangeUnderflow(value, min) ==
    LET shown == JsParseFloat(value)
    IN  value.t \in {"number", "string"} /\ ~shown.nan /\ shown.v < min * Scale

\* Mutant of CreateOrderPage_checkValidity: the unit price input has no min.
CreateOrderPage_checkValidity_PriceMinMissing(its) ==
    \A k \in DOMAIN its : ~RangeUnderflow(its[k].quantity, 1)

\* quantity input min="1", unit price input min="0"
CreateOrderPage_checkValidity(its) ==
    \A k \in DOMAIN its :
        /\ ~RangeUnderflow(its[k].quantity, 1)
        /\ ~RangeUnderflow(its[k].unitPrice, 0)

\* z.coerce.number() accepts what Number(x) turns into a number other than
\* NaN; .min(1) asks for at least 1.
CreateOrderItemSchema_success(item) ==
    /\ item.productId # ""
    /\ ~JsNumber(item.quantity).nan /\ JsNumber(item.quantity).v >= 1 * Scale
    /\ ~JsNumber(item.unitPrice).nan

CreateOrderSchema_success(value) ==
    /\ value.customerId # ""
    /\ Len(value.items) >= 1
    /\ \A k \in DOMAIN value.items : CreateOrderItemSchema_success(value.items[k])
    /\ value.discountType \in {"percentage", "fixed", "null", "undefined"}

\* The parsed items: quantity and unitPrice coerced to numbers.
CoercedItems(its) ==
    [k \in DOMAIN its |-> [its[k] EXCEPT !.quantity = JsNumber(@),
                                         !.unitPrice = JsNumber(@)]]

\* x ? parseFloat(x) : 0
ParseFloatOrZero(x) == IF Truthy(x) THEN JsParseFloat(x) ELSE Num(0)

\* Mutant of CreateOrderPage_submissionData: the subtotal is sent as the
\* total.
CreateOrderPage_submissionData_SubtotalAsTotal(data) ==
    [kind |-> "create",
     customerId |-> data.customerId,
     items |-> data.items,
     discountType |-> data.discountType,
     discountValueInput |-> data.discountValueInput,
     shippingFeeInput |-> data.shippingFeeInput,
     totalAmount |-> subtotal,
     discountAmount |-> discountAmount,
     shippingFee |-> ParseFloatOrZero(data.shippingFeeInput),
     discountValue |-> ParseFloatOrZero(data.discountValueInput)]

\* onSubmit: {...data, totalAmount, discountAmount, shippingFee, discountValue}
\* with totalAmount and discountAmount those of the current render.
CreateOrderPage_submissionData(data) ==
    [kind |-> "create",
     customerId |-> data.customerId,
     items |-> data.items,
     discountType |-> data.discountType,
     discountValueInput |-> data.discountValueInput,
     shippingFeeInput |-> data.shippingFeeInput,
     totalAmount |-> totalAmount,
     discountAmount |-> discountAmount,
     shippingFee |-> ParseFloatOrZero(data.shippingFeeInput),
     discountValue |-> ParseFloatOrZero(data.discountValueInput)]

\* --- create-order page ---
\* useForm defaultValues and the first render, with no draft in storage.
CreateOrderPage_mount ==
    LET memo == CreateOrderPage_useMemo(<< >>, "null", EmptyStr, EmptyStr)
    IN  /\ page = "createPage"
        /\ items = << >>
        /\ discountType = "null"
        /\ discountValueInput = EmptyStr
        /\ shippingFeeInput = EmptyStr
        /\ forceUpdateCounter = 0
        /\ subtotal = memo.subtotal
        /\ discountAmount = memo.discountAmount
        /\ totalAmount = memo.totalAmount
        /\ customerId = ""
        /\ mutationStatus = "idle"
        /\ inFlight = NoRequest
        /\ requestCount = 0
        /\ editsInFlight = 0
        /\ orderDraft = Null
        /\ peerForm = NoSession
        /\ products = Products
        /\ customerDisplayValue = ""
        /\ AppIdle

\* The customers the selector offers.
Customers == {[_id |-> "c1", name |-> "Ann"]}

\* CustomerSelector onChange: form.setValue('customerId', customerId), which
\* runs the save subscription, then setCustomerDisplayValue(customerName).
CreateOrderPage_customerOnChange ==
    /\ page = "createPage"
    /\ EditInFlight
    /\ \E customer \in Customers :
        /\ customerId' = customer._id
        /\ SaveDraft(customer._id, items, discountType, discountValueInput,
                     shippingFeeInput)
        /\ customerDisplayValue' = customer.name
    /\ Render(page, items, discountType, discountValueInput, shippingFeeInput,
              FALSE, forceUpdateCounter)
    /\ UNCHANGED <<page, items, discountType, discountValueInput,
                   shippingFeeInput, forceUpdateCounter, peerForm>>
    /\ UNCHANGED <<products, appVars>>

CreateOrderPage_addProduct ==
    /\ page = "createPage"
    /\ EditInFlight
    /\ Len(items) < MaxItems
    /\ \E product \in products :
        /\ items' = Append(items, NewItem(product))
        /\ Render(page, items', discountType, discountValueInput, shippingFeeInput,
                  TRUE, forceUpdateCounter)
        /\ SaveDraft(customerId, items', discountType, discountValueInput,
                     shippingFeeInput)
    /\ UNCHANGED <<page, discountType, discountValueInput, shippingFeeInput,
                   forceUpdateCounter, customerId, peerForm>>
    /\ UNCHANGED <<products, customerDisplayValue, appVars>>

CreateOrderPage_remove ==
    /\ page = "createPage"
    /\ EditInFlight
    /\ \E index \in 1..Len(items) :
        /\ items' = RemoveAt(items, index)
        /\ Render(page, items', discountType, discountValueInput, shippingFeeInput,
                  TRUE, forceUpdateCounter)
        /\ SaveDraft(customerId, items', discountType, discountValueInput,
                     shippingFeeInput)
    /\ UNCHANGED <<page, discountType, discountValueInput, shippingFeeInput,
                   forceUpdateCounter, customerId, peerForm>>
    /\ UNCHANGED <<products, customerDisplayValue, appVars>>

\* numVal = val === '' ? 1 : parseInt(val, 10); setValue; counter + 1
CreateOrderPage_quantityOnChange ==
    /\ page = "createPage"
    /\ EditInFlight
    /\ forceUpdateCounter < MaxCounter
    /\ \E index \in 1..Len(items), val \in QuantityTexts :
        LET numVal == IF val = EmptyStr THEN Num(1) ELSE JsParseInt(val)
        IN  /\ items' = [items EXCEPT ![index].quantity = numVal]
            /\ Render(page, items', discountType, discountValueInput,
                      shippingFeeInput, FALSE, forceUpdateCounter + 1)
            /\ SaveDraft(customerId, items', discountType, discountValueInput,
                         shippingFeeInput)
    /\ forceUpdateCounter' = forceUpdateCounter + 1
    /\ UNCHANGED <<page, discountType, discountValueInput, shippingFeeInput,
                   customerId, peerForm>>
    /\ UNCHANGED <<products, customerDisplayValue, appVars>>

\* numVal = val === '' ? 0 : parseFloat(val); setValue; counter + 1
CreateOrderPage_unitPriceOnChange ==
    /\ page = "createPage"
    /\ EditInFlight
    /\ forceUpdateCounter < MaxCounter
    /\ \E index \in 1..Len(items), val \in PriceTexts :
        LET numVal == IF val = EmptyStr THEN Num(0) ELSE JsParseFloat(val)
        IN  /\ items' = [items EXCEPT ![index].unitPrice = numVal]
            /\ Render(page, items', discountType, discountValueInput,
                      shippingFeeInput, FALSE, forceUpdateCounter + 1)
            /\ SaveDraft(customerId, items', discountType, discountValueInput,
                         shippingFeeInput)
    /\ forceUpdateCounter' = forceUpdateCounter + 1
    /\ UNCHANGED <<page, discountType, discountValueInput, shippingFeeInput,
                   customerId, peerForm>>
    /\ UNCHANGED <<products, customerDisplayValue, appVars>>

\* The Select offers percentage and fixed only.
CreateOrderPage_discountTypeOnChange ==
    /\ page = "createPage"
    /\ EditInFlight
    /\ \E value \in {"percentage", "fixed"} :
        /\ discountType' = value
        /\ Render(page, items, discountType', discountValueInput, shippingFeeInput,
                  FALSE, forceUpdateCounter)
        /\ SaveDraft(customerId, items, discountType', discountValueInput,
                     shippingFeeInput)
    /\ UNCHANGED <<page, items, discountValueInput, shippingFeeInput,
                   forceUpdateCounter, customerId, peerForm>>
    /\ UNCHANGED <<products, customerDisplayValue, appVars>>

\* The input is disabled while no discount type is chosen.
CreateOrderPage_discountValueOnChange ==
    /\ page = "createPage"
    /\ EditInFlight
    /\ discountType \notin {"null", "undefined"}
    /\ \E val \in DiscountTexts :
        /\ discountValueInput' = val
        /\ Render(page, items, discountType, discountValueInput', shippingFeeInput,
                  FALSE, forceUpdateCounter)
        /\ SaveDraft(customerId, items, discountType, discountValueInput',
                     shippingFeeInput)
    /\ UNCHANGED <<page, items, discountType, shippingFeeInput, forceUpdateCounter,
                   customerId, peerForm>>
    /\ UNCHANGED <<products, customerDisplayValue, appVars>>

CreateOrderPage_shippingFeeOnChange ==
    /\ page = "createPage"
    /\ EditInFlight
    /\ \E val \in ShippingTexts :
        /\ shippingFeeInput' = val
        /\ Render(page, items, discountType, discountValueInput, shippingFeeInput',
                  FALSE, forceUpdateCounter)
        /\ SaveDraft(customerId, items, discountType, discountValueInput,
                     shippingFeeInput')
    /\ UNCHANGED <<page, items, discountType, discountValueInput,
                   forceUpdateCounter, customerId, peerForm>>
    /\ UNCHANGED <<products, customerDisplayValue, appVars>>

\* The form and everything the component holds is gone once the page is
\* left; the variables take their initial values.
Unmounted ==
    /\ items' = << >>
    /\ discountType' = "null"
    /\ discountValueInput' = EmptyStr
    /\ shippingFeeInput' = EmptyStr
    /\ forceUpdateCounter' = 0
    /\ subtotal' = Num(0)
    /\ discountAmount' = Num(0)
    /\ totalAmount' = Num(0)
    /\ customerId' = ""
    /\ customerDisplayValue' = ""
    /\ mutationStatus' = "idle"

\* Mutant of CreateOrderPage_handleSubmit: the submit button is not disabled
\* while the mutation is pending.
CreateOrderPage_handleSubmit_ButtonNotDisabled ==
    /\ page = "createPage"
    /\ Len(items) # 0
    /\ requestCount < MaxRequests
    /\ CreateOrderPage_checkValidity(items)
    /\ LET value == [customerId |-> customerId, items |-> items,
                     discountType |-> discountType,
                     discountValueInput |-> discountValueInput,
                     shippingFeeInput |-> shippingFeeInput]
           data == [value EXCEPT !.items = CoercedItems(items)]
       IN  /\ CreateOrderSchema_success(value)
           /\ inFlight' = CreateOrderPage_submissionData(data)
    /\ mutationStatus' = "pending"
    /\ requestCount' = requestCount + 1
    /\ editsInFlight' = 0
    /\ UNCHANGED <<page, items, discountType, discountValueInput,
                   shippingFeeInput, forceUpdateCounter, subtotal, discountAmount,
                   totalAmount, customerId, orderDraft, peerForm>>
    /\ UNCHANGED <<products, customerDisplayValue, appVars>>

\* The submit button (disabled while the mutation is pending or there is no
\* item row), the browser's validation, handleSubmit with the zod resolver,
\* then onSubmit, which hands submissionData to mutation.mutate.  The page is
\* rendered inside ProtectedRoute, so user is set.  A submit the validation
\* stops sends nothing and leaves the form values as they are.
CreateOrderPage_handleSubmit ==
    /\ page = "createPage"
    /\ mutationStatus # "pending"
    /\ Len(items) # 0
    /\ requestCount < MaxRequests
    /\ CreateOrderPage_checkValidity(items)
    /\ LET value == [customerId |-> customerId, items |-> items,
                     discountType |-> discountType,
                     discountValueInput |-> discountValueInput,
                     shippingFeeInput |-> shippingFeeInput]
           data == [value EXCEPT !.items = CoercedItems(items)]
       IN  /\ CreateOrderSchema_success(value)
           /\ inFlight' = CreateOrderPage_submissionData(data)
    /\ mutationStatus' = "pending"
    /\ requestCount' = requestCount + 1
    /\ editsInFlight' = 0
    /\ UNCHANGED <<page, items, discountType, discountValueInput,
                   shippingFeeInput, forceUpdateCounter, subtotal, discountAmount,
                   totalAmount, customerId, orderDraft, peerForm>>
    /\ UNCHANGED <<products, customerDisplayValue, appVars>>

\* Mutant of CreateOrderPage_onSuccess: the draft is not removed.
CreateOrderPage_onSuccess_DraftKept ==
    /\ page = "createPage"
    /\ mutationStatus = "pending"
    /\ inFlight' = NoRequest
    /\ editsInFlight' = 0
    /\ UNCHANGED orderDraft
    /\ page' = "orders"
    /\ Unmounted
    /\ UNCHANGED <<requestCount, peerForm>>
    /\ UNCHANGED <<products, appVars>>

\* onSuccess: toast, invalidateQueries, removeItem('order-draft'),
\* navigate('/orders').
CreateOrderPage_onSuccess ==
    /\ page = "createPage"
    /\ mutationStatus = "pending"
    /\ inFlight' = NoRequest
    /\ editsInFlight' = 0
    /\ orderDraft' = Null
    /\ page' = "orders"
    /\ Unmounted
    /\ UNCHANGED <<requestCount, peerForm>>
    /\ UNCHANGED <<products, appVars>>

\* Mutant of CreateOrderPage_onError: the failed request is sent again.
CreateOrderPage_onError_Retry ==
    /\ page = "createPage"
    /\ mutationStatus = "pending"
    /\ requestCount' = requestCount + 1
    /\ editsInFlight' = 0
    /\ UNCHANGED <<page, items, discountType, discountValueInput,
                   shippingFeeInput, forceUpdateCounter, subtotal, discountAmount,
                   totalAmount, customerId, orderDraft, peerForm, mutationStatus,
                   inFlight>>
    /\ UNCHANGED <<products, customerDisplayValue, appVars>>

\* onError: a toast; nothing is sent again.
CreateOrderPage_onError ==
    /\ page = "createPage"
    /\ mutationStatus = "pending"
    /\ mutationStatus' = "error"
    /\ inFlight' = NoRequest
    /\ editsInFlight' = 0
    /\ UNCHANGED <<page, items, discountType, discountValueInput,
                   shippingFeeInput, forceUpdateCounter, subtotal, discountAmount,
                   totalAmount, customerId, requestCount, orderDraft, peerForm>>
    /\ UNCHANGED <<products, customerDisplayValue, appVars>>

\* --- edit-order form ---
\* The stored orders an edit session may open.
OrderItemLists ==
    {<<[productId |-> "p1", productName |-> "A", quantity |-> Num(2),
        unitPrice |-> Num(100)]>>,
     <<[productId |-> "p1", productName |-> "A", quantity |-> Num(2),
        unitPrice |-> Num(100)],
       [productId |-> "p2", productName |-> "B", quantity |-> Num(1),
        unitPrice |-> Num(50)]>>}

OrderDiscounts ==
    {[discountType |-> "null", discountValue |-> Undefined],
     [discountType |-> "percentage", discountValue |-> Num(10)],
     [discountType |-> "fixed", discountValue |-> Num(500)]}

OrderShippingFees == {Undefined, Num(20)}

\* x?.toString() || ''
ToStringOrEmpty(x) ==
    IF x.t \in {"undefined", "null"} THEN EmptyStr
    ELSE OrElse(JsToString(x), EmptyStr)

\* useForm defaultValues built from the order, and the first render.
EditOrderForm_mount ==
    \E orderItems \in OrderItemLists, d \in OrderDiscounts,
       shippingFee \in OrderShippingFees :
        LET dt == IF d.discountType \in {"null", "undefined"} THEN "none"
                  ELSE d.discountType
            dv == ToStringOrEmpty(d.discountValue)
            sh == ToStringOrEmpty(shippingFee)
            memo == EditOrderForm_useMemo(orderItems, dt, dv, sh)
        IN  /\ page = "editForm"
            /\ items = orderItems
            /\ discountType = dt
            /\ discountValueInput = dv
            /\ shippingFeeInput = sh
            /\ forceUpdateCounter = 0
            /\ subtotal = memo.subtotal
            /\ discountAmount = memo.discountAmount
            /\ totalAmount = memo.totalAmount
            /\ customerId = "c1"
            /\ mutationStatus = "idle"
            /\ inFlight = NoRequest
            /\ requestCount = 0
            /\ editsInFlight = 0
            /\ orderDraft = Null
            /\ peerForm = NoSession
            /\ products = Products
            /\ customerDisplayValue = ""
            /\ AppIdle

EditOrderForm_addProduct ==
    /\ page = "editForm"
    /\ EditInFlight
    /\ Len(items) < MaxItems
    /\ \E product \in products :
        /\ items' = Append(items, NewItem(product))
        /\ Render(page, items', discountType, discountValueInput, shippingFeeInput,
                  TRUE, forceUpdateCounter)
    /\ UNCHANGED <<page, discountType, discountValueInput, shippingFeeInput,
                   forceUpdateCounter, customerId, orderDraft,
                   peerForm>>
    /\ UNCHANGED <<products, customerDisplayValue, appVars>>

EditOrderForm_remove ==
    /\ page = "editForm"
    /\ EditInFlight
    /\ \E index \in 1..Len(items) :
        /\ items' = RemoveAt(items, index)
        /\ Render(page, items', discountType, discountValueInput, shippingFeeInput,
                  TRUE, forceUpdateCounter)
    /\ UNCHANGED <<page, discountType, discountValueInput, shippingFeeInput,
                   forceUpdateCounter, customerId, orderDraft,
                   peerForm>>
    /\ UNCHANGED <<products, customerDisplayValue, appVars>>

\* field.onChange(rawValue === '' ? '' : (isNaN(parsedValue) ? 1 : parsedValue))
EditOrderForm_quantityOnChange ==
    /\ page = "editForm"
    /\ EditInFlight
    /\ forceUpdateCounter < MaxCounter
    /\ \E index \in 1..Len(items), rawValue \in QuantityTexts :
        LET parsedValue == JsParseInt(rawValue)
            value == IF rawValue = EmptyStr THEN EmptyStr
                     ELSE IF parsedValue.nan THEN Num(1) ELSE parsedValue
        IN  /\ items' = [items EXCEPT ![index].quantity = value]
            /\ Render(page, items', discountType, discountValueInput,
                      shippingFeeInput, FALSE, forceUpdateCounter + 1)
    /\ forceUpdateCounter' = forceUpdateCounter + 1
    /\ UNCHANGED <<page, discountType, discountValueInput, shippingFeeInput,
                   customerId, orderDraft, peerForm>>
    /\ UNCHANGED <<products, customerDisplayValue, appVars>>

\* onBlur: an empty, non-numeric or below-1 quantity is reset to 1.  The
\* input is controlled, so its text is the form value.
EditOrderForm_quantityOnBlur ==
    /\ page = "editForm"
    /\ EditInFlight
    /\ forceUpdateCounter < MaxCounter
    /\ \E index \in 1..Len(items) :
        LET rawValue == items[index].quantity
            parsedValue == JsParseInt(rawValue)
        IN  /\ rawValue = EmptyStr \/ parsedValue.nan \/ parsedValue.v < Num(1).v
            /\ items' = [items EXCEPT ![index].quantity = Num(1)]
            /\ Render(page, items', discountType, discountValueInput,
                      shippingFeeInput, FALSE, forceUpdateCounter + 1)
    /\ forceUpdateCounter' = forceUpdateCounter + 1
    /\ UNCHANGED <<page, discountType, discountValueInput, shippingFeeInput,
                   customerId, orderDraft, peerForm>>
    /\ UNCHANGED <<products, customerDisplayValue, appVars>>

\* numVal = val === '' ? 0 : parseFloat(val)
EditOrderForm_unitPriceOnChange ==
    /\ page = "editForm"
    /\ EditInFlight
    /\ forceUpdateCounter < MaxCounter
    /\ \E index \in 1..Len(items), val \in PriceTexts :
        LET numVal == IF val = EmptyStr THEN Num(0) ELSE JsParseFloat(val)
        IN  /\ items' = [items EXCEPT ![index].unitPrice = numVal]
            /\ Render(page, items', discountType, discountValueInput,
                      shippingFeeInput, FALSE, forceUpdateCounter + 1)
    /\ forceUpdateCounter' = forceUpdateCounter + 1
    /\ UNCHANGED <<page, discountType, discountValueInput, shippingFeeInput,
                   customerId, orderDraft, peerForm>>
    /\ UNCHANGED <<products, customerDisplayValue, appVars>>

\* The Select offers none, percentage and fixed.
EditOrderForm_discountTypeOnChange ==
    /\ page = "editForm"
    /\ EditInFlight
    /\ \E value \in {"none", "percentage", "fixed"} :
        /\ discountType' = value
        /\ Render(page, items, discountType', discountValueInput, shippingFeeInput,
                  FALSE, forceUpdateCounter)
    /\ UNCHANGED <<page, items, discountValueInput, shippingFeeInput,
                   forceUpdateCounter, customerId, orderDraft,
                   peerForm>>
    /\ UNCHANGED <<products, customerDisplayValue, appVars>>

\* The input is disabled while the discount type is unset or 'none'.
EditOrderForm_discountValueOnChange ==
    /\ page = "editForm"
    /\ EditInFlight
    /\ discountType \notin {"null", "undefined", "none"}
    /\ forceUpdateCounter < MaxCounter
    /\ \E val \in DiscountTexts :
        /\ discountValueInput' = val
        /\ Render(page, items, discountType, discountValueInput', shippingFeeInput,
                  FALSE, forceUpdateCounter + 1)
    /\ forceUpdateCounter' = forceUpdateCounter + 1
    /\ UNCHANGED <<page, items, discountType, shippingFeeInput, customerId, orderDraft, peerForm>>
    /\ UNCHANGED <<products, customerDisplayValue, appVars>>

EditOrderForm_shippingFeeOnChange ==
    /\ page = "editForm"
    /\ EditInFlight
    /\ forceUpdateCounter < MaxCounter
    /\ \E val \in ShippingTexts :
        /\ shippingFeeInput' = val
        /\ Render(page, items, discountType, discountValueInput, shippingFeeInput',
                  FALSE, forceUpdateCounter + 1)
    /\ forceUpdateCounter' = forceUpdateCounter + 1
    /\ UNCHANGED <<page, items, discountType, discountValueInput, customerId, orderDraft, peerForm>>
    /\ UNCHANGED <<products, customerDisplayValue, appVars>>

\* quantity input min="1", unit price input min="0"
EditOrderForm_checkValidity(its) ==
    \A k \in DOMAIN its :
        /\ ~RangeUnderflow(its[k].quantity, 1)
        /\ ~RangeUnderflow(its[k].unitPrice, 0)

EditOrderItemSchema_success(item) ==
    /\ item.productId # ""
    /\ ~JsNumber(item.quantity).nan /\ JsNumber(item.quantity).v >= 1 * Scale
    /\ ~JsNumber(item.unitPrice).nan

\* Mutant of EditOrderSchema_success: items has no .min(1).
EditOrderSchema_success_NoItemsMinimum(value) ==
    /\ value.customerId # ""
    /\ \A k \in DOMAIN value.items : EditOrderItemSchema_success(value.items[k])
    /\ value.discountType \in {"none", "percentage", "fixed", "undefined"}

EditOrderSchema_success(value) ==
    /\ value.customerId # ""
    /\ Len(value.items) >= 1
    /\ \A k \in DOMAIN value.items : EditOrderItemSchema_success(value.items[k])
    /\ value.discountType \in {"none", "percentage", "fixed", "undefined"}

\* x ? parseFloat(x) : undefined
ParseFloatOrUndefined(x) == IF Truthy(x) THEN JsParseFloat(x) ELSE Undefined

\* mutationFn: the transformedData given to updateOrder.
EditOrderForm_transformedData(data) ==
    [kind |-> "update",
     customerId |-> data.customerId,
     items |-> CoercedItems(data.items),
     discountType |-> IF data.discountType = "none" THEN "null"
                      ELSE data.discountType,
     discountValue |-> IF data.discountType = "none" THEN Undefined
                       ELSE ParseFloatOrUndefined(data.discountValueInput),
     shippingFee |-> ParseFloatOrUndefined(data.shippingFeeInput)]

\* The submit button (disabled while the mutation is pending), the browser's
\* validation, handleSubmit with the zod resolver, then onSubmit, which hands
\* data to mutation.mutate.
EditOrderForm_handleSubmit ==
    /\ page = "editForm"
    /\ mutationStatus # "pending"
    /\ requestCount < MaxRequests
    /\ EditOrderForm_checkValidity(items)
    /\ LET value == [customerId |-> customerId, items |-> items,
                     discountType |-> discountType,
                     discountValueInput |-> discountValueInput,
                     shippingFeeInput |-> shippingFeeInput]
           data == [value EXCEPT !.items = CoercedItems(items)]
       IN  /\ EditOrderSchema_success(value)
           /\ inFlight' = EditOrderForm_transformedData(data)
    /\ mutationStatus' = "pending"
    /\ requestCount' = requestCount + 1
    /\ editsInFlight' = 0
    /\ UNCHANGED <<page, items, discountType, discountValueInput,
                   shippingFeeInput, forceUpdateCounter, subtotal, discountAmount,
                   totalAmount, customerId, orderDraft, peerForm>>
    /\ UNCHANGED <<products, customerDisplayValue, appVars>>

\* onSuccess: toast, invalidateQueries, navigate('/orders').
EditOrderForm_onSuccess ==
    /\ page = "editForm"
    /\ mutationStatus = "pending"
    /\ inFlight' = NoRequest
    /\ editsInFlight' = 0
    /\ page' = "orders"
    /\ Unmounted
    /\ UNCHANGED <<requestCount, orderDraft, peerForm>>
    /\ UNCHANGED <<products, appVars>>

\* Mutant of EditOrderForm_onError: the form is reset when the request
\* fails.
EditOrderForm_onError_FormReset ==
    /\ page = "editForm"
    /\ mutationStatus = "pending"
    /\ mutationStatus' = "error"
    /\ inFlight' = NoRequest
    /\ editsInFlight' = 0
    /\ items' = << >>
    /\ UNCHANGED <<page, discountType, discountValueInput,
                   shippingFeeInput, forceUpdateCounter, subtotal, discountAmount,
                   totalAmount, customerId, requestCount, orderDraft, peerForm>>
    /\ UNCHANGED <<products, customerDisplayValue, appVars>>

\* onError: a toast; nothing is sent again.
EditOrderForm_onError ==
    /\ page = "editForm"
    /\ mutationStatus = "pending"
    /\ mutationStatus' = "error"
    /\ inFlight' = NoRequest
    /\ editsInFlight' = 0
    /\ UNCHANGED <<page, items, discountType, discountValueInput,
                   shippingFeeInput, forceUpdateCounter, subtotal, discountAmount,
                   totalAmount, customerId, requestCount, orderDraft, peerForm>>
    /\ UNCHANGED <<products, customerDisplayValue, appVars>>

Init == CreateOrderPage_mount \/ EditOrderForm_mount

Next ==
    \/ CreateOrderPage_customerOnChange
    \/ CreateOrderPage_addProduct
    \/ CreateOrderPage_remove
    \/ CreateOrderPage_quantityOnChange
    \/ CreateOrderPage_unitPriceOnChange
    \/ CreateOrderPage_discountTypeOnChange
    \/ CreateOrderPage_discountValueOnChange
    \/ CreateOrderPage_shippingFeeOnChange
    \/ CreateOrderPage_handleSubmit
    \/ CreateOrderPage_onSuccess
    \/ CreateOrderPage_onError
    \/ EditOrderForm_addProduct
    \/ EditOrderForm_remove
    \/ EditOrderForm_quantityOnChange
    \/ EditOrderForm_quantityOnBlur
    \/ EditOrderForm_unitPriceOnChange
    \/ EditOrderForm_discountTypeOnChange
    \/ EditOrderForm_discountValueOnChange
    \/ EditOrderForm_shippingFeeOnChange
    \/ EditOrderForm_handleSubmit
    \/ EditOrderForm_onSuccess
    \/ EditOrderForm_onError

Spec == Init /\ [][Next]_vars

\* ------------------------------------------------------------------------
\* DraftSpec: the create-order page opened on what localStorage holds under
\* 'order-draft', next to a second session of the same page in the same
\* browser.  Both sessions read the entry when they mount and write it on
\* every change of a form value.
\* ------------------------------------------------------------------------
\* What the entry may hold when the page is opened: nothing, a text that
\* JSON.parse rejects, a draft the page wrote, a draft without items.
StoredDrafts ==
    {Null,
     [t |-> "text"],
     DraftOf([customerId |-> "c1", customerDisplayValue |-> "Ann", items |-> <<NewItem([_id |-> "p1",
                  name |-> "A", price |-> Num(100)])>>,
              discountType |-> "fixed", discountValueInput |-> IntStr(10),
              shippingFeeInput |-> IntStr(20)]),
     [t |-> "draft", customerId |-> "c1", customerDisplayValue |-> "Ann",
      discountType |-> "null", discountValueInput |-> EmptyStr,
      shippingFeeInput |-> EmptyStr]}

DraftInit ==
    /\ page = "orders"
    /\ items = << >>
    /\ discountType = "null"
    /\ discountValueInput = EmptyStr
    /\ shippingFeeInput = EmptyStr
    /\ forceUpdateCounter = 0
    /\ subtotal = Num(0)
    /\ discountAmount = Num(0)
    /\ totalAmount = Num(0)
    /\ customerId = ""
    /\ mutationStatus = "idle"
    /\ inFlight = NoRequest
    /\ requestCount = 0
    /\ editsInFlight = 0
    /\ orderDraft \in StoredDrafts
    /\ peerForm = NoSession
    /\ products = Products
    /\ customerDisplayValue = ""
    /\ AppIdle

\* navigate('/orders/create'): the page mounts with its default values, the
\* load effect resets the form to the stored draft, and the form renders.
\* A render that throws takes the page down.
CreateOrderPage_open ==
    /\ page = "orders"
    /\ LET value == CreateOrderPage_loadDraft(orderDraft)
       IN  IF ReduceThrows(value)
           THEN /\ page' = "crashed"
                /\ UNCHANGED <<items, discountType, discountValueInput,
                               shippingFeeInput, subtotal, discountAmount,
                               totalAmount, customerId, customerDisplayValue>>
           ELSE /\ page' = "createPage"
                /\ items' = value.items
                /\ discountType' = value.discountType
                /\ discountValueInput' = value.discountValueInput
                /\ shippingFeeInput' = value.shippingFeeInput
                /\ customerId' = value.customerId
                /\ customerDisplayValue' = DisplayValueOf(value)
                /\ Render("createPage", value.items, value.discountType,
                          value.discountValueInput, value.shippingFeeInput,
                          TRUE, forceUpdateCounter)
    /\ UNCHANGED <<forceUpdateCounter, mutationVars, editsInFlight, orderDraft, peerForm>>
    /\ UNCHANGED <<products, appVars>>

\* The cancel button: navigate('/orders').
CreateOrderPage_cancel ==
    /\ page = "createPage"
    /\ page' = "orders"
    /\ Unmounted
    /\ UNCHANGED <<inFlight, requestCount, editsInFlight, orderDraft, peerForm>>
    /\ UNCHANGED <<products, appVars>>

\* The second session mounts: the same load effect on the same entry.
Peer_open ==
    /\ peerForm = NoSession
    /\ products = Products
    /\ customerDisplayValue = ""
    /\ AppIdle
    /\ LET value == CreateOrderPage_loadDraft(orderDraft)
       IN  /\ ~ReduceThrows(value)
           /\ peerForm' = [t |-> "open", customerId |-> value.customerId,
                           customerDisplayValue |-> DisplayValueOf(value),
                           items |-> value.items,
                           discountType |-> value.discountType,
                           discountValueInput |-> value.discountValueInput,
                           shippingFeeInput |-> value.shippingFeeInput]
    /\ UNCHANGED <<page, items, discountType, discountValueInput,
                   shippingFeeInput, forceUpdateCounter, subtotal, discountAmount,
                   totalAmount, customerId, mutationVars, editsInFlight, orderDraft>>
    /\ UNCHANGED <<products, customerDisplayValue, appVars>>

\* addProduct in the second session, and its save of the draft.
Peer_addProduct ==
    /\ peerForm # NoSession
    /\ Len(peerForm.items) < MaxItems
    /\ \E product \in products :
        /\ peerForm' = [peerForm EXCEPT !.items = Append(@, NewItem(product))]
        /\ orderDraft' = DraftOf(peerForm')
    /\ UNCHANGED <<page, items, discountType, discountValueInput,
                   shippingFeeInput, forceUpdateCounter, subtotal, discountAmount,
                   totalAmount, customerId, mutationVars, editsInFlight>>
    /\ UNCHANGED <<products, customerDisplayValue, appVars>>

\* The second session's cancel button.
Peer_cancel ==
    /\ peerForm # NoSession
    /\ peerForm' = NoSession
    /\ UNCHANGED <<page, items, discountType, discountValueInput,
                   shippingFeeInput, forceUpdateCounter, subtotal, discountAmount,
                   totalAmount, customerId, mutationVars, editsInFlight, orderDraft>>
    /\ UNCHANGED <<products, customerDisplayValue, appVars>>

DraftNext ==
    \/ CreateOrderPage_open
    \/ CreateOrderPage_customerOnChange
    \/ CreateOrderPage_addProduct
    \/ CreateOrderPage_remove
    \/ CreateOrderPage_shippingFeeOnChange
    \/ CreateOrderPage_cancel
    \/ Peer_open
    \/ Peer_addProduct
    \/ Peer_cancel

DraftSpec == DraftInit /\ [][DraftNext]_vars


\* ------------------------------------------------------------------------
\* CatalogSpec: line items are added and edited while the product query
\* brings new results.
\* ------------------------------------------------------------------------
\* The catalog after product A has been renamed and repriced.
RepricedProducts ==
    {[_id |-> "p1", name |-> "A2", price |-> Num(120)],
     [_id |-> "p2", name |-> "B", price |-> Num(50)]}

Catalogs == {Products, RepricedProducts}

\* Mutant of ProductsQuery_onData: the line items take the name and the price
\* of their product from the new data.
ProductsQuery_onData_ItemsResynced ==
    /\ page \in {"createPage", "editForm"}
    /\ \E data \in Catalogs \ {products} :
        /\ products' = data
        /\ items' = [i \in 1..Len(items) |->
                        LET product == CHOOSE p \in data :
                                           p._id = items[i].productId
                        IN  [items[i] EXCEPT !.productName = product.name,
                                             !.unitPrice = product.price]]
    /\ UNCHANGED <<page, discountType, discountValueInput,
                   shippingFeeInput, forceUpdateCounter, subtotal, discountAmount,
                   totalAmount, customerId, mutationVars, editsInFlight,
                   orderDraft, peerForm, customerDisplayValue, appVars>>

\* The product query settles with other data: the selector offers them; the
\* form values are not touched and no dependency of useMemo changes.
ProductsQuery_onData ==
    /\ page \in {"createPage", "editForm"}
    /\ \E data \in Catalogs \ {products} : products' = data
    /\ UNCHANGED <<page, items, discountType, discountValueInput,
                   shippingFeeInput, forceUpdateCounter, subtotal, discountAmount,
                   totalAmount, customerId, mutationVars, editsInFlight,
                   orderDraft, peerForm, customerDisplayValue, appVars>>

CatalogNext ==
    \/ ProductsQuery_onData
    \/ CreateOrderPage_addProduct
    \/ CreateOrderPage_remove
    \/ CreateOrderPage_quantityOnChange
    \/ EditOrderForm_addProduct
    \/ EditOrderForm_remove
    \/ EditOrderForm_quantityOnChange

CatalogSpec == Init /\ [][CatalogNext]_vars


\* ------------------------------------------------------------------------
\* The orders page: no order form is mounted.
\* ------------------------------------------------------------------------
FormIdle ==
    /\ page = "orders"
    /\ items = << >>
    /\ discountType = "null"
    /\ discountValueInput = EmptyStr
    /\ shippingFeeInput = EmptyStr
    /\ forceUpdateCounter = 0
    /\ subtotal = Num(0)
    /\ discountAmount = Num(0)
    /\ totalAmount = Num(0)
    /\ customerId = ""
    /\ mutationStatus = "idle"
    /\ inFlight = NoRequest
    /\ requestCount = 0
    /\ editsInFlight = 0
    /\ orderDraft = Null
    /\ peerForm = NoSession
    /\ products = Products
    /\ customerDisplayValue = ""

\* ------------------------------------------------------------------------
\* StatusSpec: the OrderStatusActionButton of one row of the orders table,
\* with the list fetches that bring the row's order.
\* ------------------------------------------------------------------------
AllOrderStatusOptions ==
    {"pending", "processing", "shipped", "delivered", "completed",
     "cancelled", "returned"}

\* The status the row's button passes to openConfirmationDialog: 'shipped'
\* for pending and processing, 'completed' for shipped; the other statuses
\* have no button (the component returns null).
OrderStatusActionButton_newStatus(status) ==
    IF status \in {"pending", "processing"} THEN "shipped"
    ELSE IF status = "shipped" THEN "completed"
    ELSE "null"

\* The component renders something: the table is shown ({isLoading ? ... })
\* and the row's status has a button.
ButtonRendered ==
    /\ ~isLoading
    /\ OrderStatusActionButton_newStatus(orderStatus) # "null"

\* The table is replaced by "Loading...": the row's component unmounts, its
\* state is gone, and the requests it sent settle without it.
TableUnmounted ==
    /\ isAlertOpen' = FALSE
    /\ targetStatus' = "null"
    /\ isUpdatingStatus' = FALSE

Orphaned(requests) == {[r EXCEPT !.live = FALSE] : r \in requests}

\* fetchOrders: setIsLoading(true), then getOrders; the response carries the
\* row's status as the server holds it.
StartFetch(status) ==
    /\ isLoading' = TRUE
    /\ fetching' = fetching \cup {[rowStatus |-> status]}
    /\ Cardinality(fetching') <= MaxFetches
    /\ TableUnmounted

\* The filter card's buttons are rendered while the list loads: each click
\* puts a new appliedFilters object in place, and the effect on fetchOrders
\* fetches again.
StatusList_fetchOrders ==
    /\ StartFetch(serverStatus)
    /\ statusRequests' = Orphaned(statusRequests)
    /\ UNCHANGED <<orderStatus, statusRequestCount, serverStatus>>
    /\ UNCHANGED <<formVars, authVars, listVars>>

\* A getOrders response arrives: setOrders(result.data) and, in finally,
\* setIsLoading(false).  A row that is mounted keeps its component, by its
\* key order._id, and so its state.
StatusList_fetchResolved ==
    /\ \E response \in fetching :
        /\ fetching' = fetching \ {response}
        /\ orderStatus' = response.rowStatus
    /\ isLoading' = FALSE
    /\ UNCHANGED <<isAlertOpen, targetStatus, isUpdatingStatus,
                   statusRequests, statusRequestCount, serverStatus>>
    /\ UNCHANGED <<formVars, authVars, listVars>>

\* getOrders fails: a toast, and setIsLoading(false) in finally.
StatusList_fetchRejected ==
    /\ \E response \in fetching : fetching' = fetching \ {response}
    /\ isLoading' = FALSE
    /\ UNCHANGED <<statusVars, formVars, authVars, listVars>>

\* The row's button: openConfirmationDialog(newStatus).
OrderStatusActionButton_openConfirmationDialog ==
    /\ ButtonRendered
    /\ ~isUpdatingStatus
    /\ ~isAlertOpen
    /\ targetStatus' = OrderStatusActionButton_newStatus(orderStatus)
    /\ isAlertOpen' = TRUE
    /\ UNCHANGED <<orderStatus, isUpdatingStatus, statusRequests,
                   statusRequestCount, serverStatus>>
    /\ UNCHANGED <<formVars, authVars, listVars, fetching, isLoading>>

\* Escape closes the dialog through onOpenChange={setIsAlertOpen}.
OrderStatusActionButton_onOpenChange ==
    /\ ButtonRendered
    /\ isAlertOpen
    /\ isAlertOpen' = FALSE
    /\ UNCHANGED <<orderStatus, targetStatus, isUpdatingStatus, statusRequests,
                   statusRequestCount, serverStatus>>
    /\ UNCHANGED <<formVars, authVars, listVars, fetching, isLoading>>

\* AlertDialogCancel onClick.
OrderStatusActionButton_cancel ==
    /\ ButtonRendered
    /\ isAlertOpen
    /\ ~isUpdatingStatus
    /\ isAlertOpen' = FALSE
    /\ targetStatus' = "null"
    /\ UNCHANGED <<orderStatus, isUpdatingStatus, statusRequests,
                   statusRequestCount, serverStatus>>
    /\ UNCHANGED <<formVars, authVars, listVars, fetching, isLoading>>

\* AlertDialogAction onClick: handleConfirmUpdateStatus up to its await; the
\* action button closes the dialog.
OrderStatusActionButton_handleConfirmUpdateStatus ==
    /\ ButtonRendered
    /\ isAlertOpen
    /\ ~isUpdatingStatus
    /\ statusRequestCount < MaxStatusRequests
    /\ isAlertOpen' = FALSE
    /\ IF targetStatus = "null"
       THEN UNCHANGED <<isUpdatingStatus, statusRequests, statusRequestCount>>
       ELSE /\ isUpdatingStatus' = TRUE
            /\ statusRequests' = statusRequests \cup
                   {[from |-> orderStatus, to |-> targetStatus, live |-> TRUE]}
            /\ statusRequestCount' = statusRequestCount + 1
    /\ UNCHANGED <<orderStatus, targetStatus, serverStatus>>
    /\ UNCHANGED <<formVars, authVars, listVars, fetching, isLoading>>

\* updateOrderStatus succeeds: the toast, then onStatusUpdated(), which is
\* fetchOrders.
OrderStatusActionButton_updateResolved ==
    /\ \E request \in statusRequests :
        /\ statusRequests' = Orphaned(statusRequests \ {request})
        /\ serverStatus' = request.to
        /\ StartFetch(request.to)
    /\ UNCHANGED <<orderStatus, statusRequestCount>>
    /\ UNCHANGED <<formVars, authVars, listVars>>

\* updateOrderStatus fails: the toast, then finally resets the state of the
\* component, when it is still the mounted one.
OrderStatusActionButton_updateRejected ==
    /\ \E request \in statusRequests :
        /\ statusRequests' = statusRequests \ {request}
        /\ IF request.live
           THEN /\ isUpdatingStatus' = FALSE
                /\ isAlertOpen' = FALSE
                /\ targetStatus' = "null"
           ELSE UNCHANGED <<isUpdatingStatus, isAlertOpen, targetStatus>>
    /\ UNCHANGED <<orderStatus, statusRequestCount, serverStatus>>
    /\ UNCHANGED <<formVars, authVars, listVars, fetching, isLoading>>

\* Another session saves the order from the edit form, whose payload carries
\* the status field.
OtherSession_updateOrder ==
    /\ \E status \in AllOrderStatusOptions \ {serverStatus} :
        serverStatus' = status
    /\ UNCHANGED <<orderStatus, isAlertOpen, targetStatus, isUpdatingStatus,
                   statusRequests, statusRequestCount>>
    /\ UNCHANGED <<formVars, authVars, listVars, fetching, isLoading>>

\* OrdersPage mounts: isLoading is true and the effect has called
\* fetchOrders.
StatusInit ==
    /\ FormIdle
    /\ AuthIdle
    /\ ListIdle
    /\ serverStatus \in AllOrderStatusOptions
    /\ fetching = {[rowStatus |-> serverStatus]}
    /\ isLoading = TRUE
    /\ orderStatus = serverStatus
    /\ isAlertOpen = FALSE
    /\ targetStatus = "null"
    /\ isUpdatingStatus = FALSE
    /\ statusRequests = {}
    /\ statusRequestCount = 0

StatusNext ==
    \/ StatusList_fetchOrders
    \/ StatusList_fetchResolved
    \/ StatusList_fetchRejected
    \/ OrderStatusActionButton_openConfirmationDialog
    \/ OrderStatusActionButton_onOpenChange
    \/ OrderStatusActionButton_cancel
    \/ OrderStatusActionButton_handleConfirmUpdateStatus
    \/ OrderStatusActionButton_updateResolved
    \/ OrderStatusActionButton_updateRejected
    \/ OtherSession_updateOrder

StatusSpec == StatusInit /\ [][StatusNext]_vars

\* ------------------------------------------------------------------------
\* OrdersSpec: the orders page's pagination, filters and deletions.
\* ------------------------------------------------------------------------
\* The status filter's values that are used: no filter and one status.
StatusFilters == {"all", "shipped"}

\* The orders the server holds at the start.
InitialTotals == {0, 1, 11, 21}

\* The server side of getOrders, which is not part of this repository: the
\* orders that match the filter (half of them have the filtered status), the
\* number of pages, and the length of one page.
Matching(status, total) == IF status = "all" THEN total ELSE total \div 2

PagesOf(total, limit) == (total + limit - 1) \div limit

PageLength(total, pageNumber, limit) ==
    LET rest == total - (pageNumber - 1) * limit
    IN  IF pageNumber < 1 \/ rest < 0 THEN 0
        ELSE IF rest > limit THEN limit ELSE rest

\* fetchOrders of a render: setIsLoading(true) and getOrders with the
\* filters, the page and the page size of that render.
StartListFetch(pageNumber, limit, status, total) ==
    /\ isLoading' = TRUE
    /\ fetching' = fetching \cup
           {[page |-> pageNumber, limit |-> limit, status |-> status,
             total |-> Matching(status, total)]}
    /\ Cardinality(fetching') <= MaxFetches

\* Select onValueChange of the status filter.
OrdersPage_statusInputOnChange ==
    /\ \E value \in StatusFilters \ {statusInput} : statusInput' = value
    /\ UNCHANGED <<currentPage, totalPages, itemsPerPage, ordersLength,
                   appliedStatus, deleting, deleteCount, serverTotal>>
    /\ UNCHANGED <<formVars, authVars, statusVars, fetching, isLoading>>

\* handleApplyFilters: a new appliedFilters object and page 1; the effect on
\* fetchOrders fetches.
OrdersPage_handleApplyFilters ==
    /\ appliedStatus' = statusInput
    /\ currentPage' = 1
    /\ StartListFetch(1, itemsPerPage, statusInput, serverTotal)
    /\ UNCHANGED <<totalPages, itemsPerPage, ordersLength, statusInput,
                   deleting, deleteCount, serverTotal>>
    /\ UNCHANGED <<formVars, authVars, statusVars>>

\* handleClearFilters.
OrdersPage_handleClearFilters ==
    /\ statusInput' = "all"
    /\ appliedStatus' = "all"
    /\ currentPage' = 1
    /\ StartListFetch(1, itemsPerPage, "all", serverTotal)
    /\ UNCHANGED <<totalPages, itemsPerPage, ordersLength, deleting,
                   deleteCount, serverTotal>>
    /\ UNCHANGED <<formVars, authVars, statusVars>>

\* The pagination block is rendered with the table, when totalPages > 1.
PaginationRendered == ~isLoading /\ totalPages > 1

\* The previous and next buttons, disabled on currentPage <= 1 and on
\* currentPage >= totalPages, call handlePageChange.
OrdersPage_handlePageChange ==
    /\ PaginationRendered
    /\ \E newPage \in {currentPage - 1, currentPage + 1} :
        /\ newPage = currentPage - 1 => ~(currentPage <= 1)
        /\ newPage = currentPage + 1 => ~(currentPage >= totalPages)
        /\ newPage >= 1 /\ newPage <= totalPages /\ newPage # currentPage
        /\ currentPage' = newPage
        /\ StartListFetch(newPage, itemsPerPage, appliedStatus, serverTotal)
    /\ UNCHANGED <<totalPages, itemsPerPage, ordersLength, statusInput,
                   appliedStatus, deleting, deleteCount, serverTotal>>
    /\ UNCHANGED <<formVars, authVars, statusVars>>

\* handleItemsPerPageChange, from the Select of the pagination block.
OrdersPage_handleItemsPerPageChange ==
    /\ PaginationRendered
    /\ \E newSize \in ITEMS_PER_PAGE_OPTIONS \ {itemsPerPage} :
        /\ itemsPerPage' = newSize
        /\ currentPage' = 1
        /\ StartListFetch(1, newSize, appliedStatus, serverTotal)
    /\ UNCHANGED <<totalPages, ordersLength, statusInput, appliedStatus,
                   deleting, deleteCount, serverTotal>>
    /\ UNCHANGED <<formVars, authVars, statusVars>>

\* A getOrders response arrives: setOrders, setTotalPages, setIsLoading(false).
OrdersPage_fetchResolved ==
    /\ \E response \in fetching :
        /\ fetching' = fetching \ {response}
        /\ ordersLength' = PageLength(response.total, response.page,
                                      response.limit)
        /\ totalPages' = PagesOf(response.total, response.limit)
    /\ isLoading' = FALSE
    /\ UNCHANGED <<currentPage, itemsPerPage, statusInput, appliedStatus,
                   deleting, deleteCount, serverTotal>>
    /\ UNCHANGED <<formVars, authVars, statusVars>>

\* getOrders fails: the toast and setIsLoading(false).
OrdersPage_fetchRejected ==
    /\ \E response \in fetching : fetching' = fetching \ {response}
    /\ isLoading' = FALSE
    /\ UNCHANGED <<formVars, authVars, statusVars, listVars>>

\* DeleteOrderButton handleDelete up to its await.  The onOrderDeleted it
\* will call is the handleOrderDeleted of the render that is on screen now,
\* with that render's orders, currentPage and fetchOrders.
DeleteOrderButton_handleDelete ==
    /\ user = "admin"
    /\ ~isLoading
    /\ ordersLength >= 1
    /\ deleteCount < MaxDeletes
    /\ Cardinality(deleting) < ordersLength
    /\ deleteCount' = deleteCount + 1
    /\ deleting' = deleting \cup
           {[n |-> deleteCount', ordersLength |-> ordersLength,
             currentPage |-> currentPage, itemsPerPage |-> itemsPerPage,
             status |-> appliedStatus]}
    /\ UNCHANGED <<currentPage, totalPages, itemsPerPage, ordersLength,
                   statusInput, appliedStatus, serverTotal>>
    /\ UNCHANGED <<formVars, authVars, statusVars, fetching, isLoading>>

\* handleOrderDeleted of the render the delete button was clicked in:
\* if (orders.length === 1 && currentPage > 1) setCurrentPage(prev => prev - 1)
\* else fetchOrders().  The updater takes the page of the moment; the
\* condition and fetchOrders are the render's.
OrdersPage_handleOrderDeleted(closure) ==
    IF closure.ordersLength = 1 /\ closure.currentPage > 1
    THEN /\ currentPage' = currentPage - 1
         /\ StartListFetch(currentPage', itemsPerPage, appliedStatus,
                           serverTotal')
    ELSE /\ currentPage' = currentPage
         /\ StartListFetch(closure.currentPage, closure.itemsPerPage,
                           closure.status, serverTotal')

\* deleteOrder succeeds: the toast and onOrderDeleted().
DeleteOrderButton_deleteResolved ==
    /\ \E closure \in deleting :
        /\ deleting' = deleting \ {closure}
        /\ serverTotal > 0
        /\ serverTotal' = serverTotal - 1
        /\ OrdersPage_handleOrderDeleted(closure)
    /\ UNCHANGED <<totalPages, itemsPerPage, ordersLength, statusInput,
                   appliedStatus, deleteCount>>
    /\ UNCHANGED <<formVars, authVars, statusVars>>

\* deleteOrder fails: the toast only.
DeleteOrderButton_deleteRejected ==
    /\ \E closure \in deleting : deleting' = deleting \ {closure}
    /\ UNCHANGED <<currentPage, totalPages, itemsPerPage, ordersLength,
                   statusInput, appliedStatus, deleteCount, serverTotal>>
    /\ UNCHANGED <<formVars, authVars, statusVars, fetching, isLoading>>

\* OrdersPage mounts for an admin: page 1, isLoading true, the first
\* fetchOrders on its way.
OrdersInit ==
    /\ FormIdle
    /\ StatusIdle
    /\ authLoading = FALSE
    /\ user = "admin"
    /\ storedUser = "admin"
    /\ storedToken = TRUE
    /\ location = "/orders"
    /\ fromPath = "none"
    /\ screen = "OrdersPage"
    /\ serverTotal \in InitialTotals
    /\ currentPage = 1
    /\ totalPages = 1
    /\ itemsPerPage = DEFAULT_ITEMS_PER_PAGE
    /\ ordersLength = 0
    /\ statusInput = "all"
    /\ appliedStatus = "all"
    /\ deleting = {}
    /\ deleteCount = 0
    /\ isLoading = TRUE
    /\ fetching = {[page |-> 1, limit |-> DEFAULT_ITEMS_PER_PAGE,
                    status |-> "all", total |-> serverTotal]}

OrdersNext ==
    \/ OrdersPage_statusInputOnChange
    \/ OrdersPage_handleApplyFilters
    \/ OrdersPage_handleClearFilters
    \/ OrdersPage_handlePageChange
    \/ OrdersPage_handleItemsPerPageChange
    \/ OrdersPage_fetchResolved
    \/ OrdersPage_fetchRejected
    \/ DeleteOrderButton_handleDelete
    \/ DeleteOrderButton_deleteResolved
    \/ DeleteOrderButton_deleteRejected

OrdersSpec == OrdersInit /\ [][OrdersNext]_vars

\* ------------------------------------------------------------------------
\* AuthSpec: AuthProvider, ProtectedRoute and the routes of App.
\* ------------------------------------------------------------------------
Roles == {"admin", "employee"}

\* What localStorage holds under 'stockpilot-user': nothing, the JSON of a
\* user of either role, or a text JSON.parse rejects.
StoredUsers == {"null", "corrupt"} \cup Roles

\* Pathnames: the public login page, two of the pages for every signed-in
\* user, the two admin pages, the index route and a path no route matches.
Paths ==
    {"/login", "/", "/dashboard", "/orders", "/admin/users",
     "/admin/deleted-orders", "/nowhere"}

AdminPages == {"UsersPage", "DeletedOrdersPage"}
ProtectedPages == {"DashboardPage", "OrdersPage"} \cup AdminPages

\* Mutant of ProtectedRoute: the roles are not looked at.
ProtectedRoute_RolesIgnored(authUser, loading, roles, children) ==
    IF loading THEN "Loader2"
    ELSE IF authUser = "null" THEN "NavigateLogin"
    ELSE children

\* Mutant of ProtectedRoute: the children are rendered while loading.
ProtectedRoute_NoLoadingCheck(authUser, loading, roles, children) ==
    IF authUser = "null" /\ ~loading THEN "NavigateLogin"
    ELSE IF roles # {} /\ authUser \notin roles THEN "NavigateDashboard"
    ELSE children

\* ProtectedRoute: the spinner while loading, <Navigate to="/login"> without
\* a user, <Navigate to="/dashboard"> when roles are given and the user's
\* role is not among them, the children otherwise.
ProtectedRoute(authUser, loading, roles, children) ==
    IF loading THEN "Loader2"
    ELSE IF authUser = "null" THEN "NavigateLogin"
    ELSE IF roles # {} /\ authUser \notin roles THEN "NavigateDashboard"
    ELSE children

\* The element of the route under "/" that matches the pathname.
App_outlet(pathname, authUser, loading) ==
    CASE pathname = "/" -> "NavigateDashboard"
      [] pathname = "/dashboard" -> "DashboardPage"
      [] pathname = "/orders" -> "OrdersPage"
      [] pathname = "/admin/users" ->
             ProtectedRoute(authUser, loading, {"admin"}, "UsersPage")
      [] pathname = "/admin/deleted-orders" ->
             ProtectedRoute(authUser, loading, {"admin"}, "DeletedOrdersPage")

\* <Routes>: the login page is public, the routes under "/" are the children
\* of <ProtectedRoute><Layout /></ProtectedRoute>, every other path
\* navigates to /dashboard.
App_render(pathname, authUser, loading) ==
    IF pathname = "/login" THEN "LoginPage"
    ELSE IF pathname \in Paths \ {"/login", "/nowhere"}
    THEN ProtectedRoute(authUser, loading, {},
                        App_outlet(pathname, authUser, loading))
    ELSE "NavigateDashboard"

Rerender == screen' = App_render(location', user', authLoading')

\* The mount effect of AuthProvider: the stored user and token, when both are
\* present, become the state; a stored user that does not parse removes both
\* entries; loading ends.
AuthProvider_mountEffect ==
    /\ authLoading
    /\ IF storedUser # "null" /\ storedToken
       THEN IF storedUser = "corrupt"
            THEN /\ storedUser' = "null"
                 /\ storedToken' = FALSE
                 /\ user' = user
            ELSE /\ user' = storedUser
                 /\ UNCHANGED <<storedUser, storedToken>>
       ELSE UNCHANGED <<user, storedUser, storedToken>>
    /\ authLoading' = FALSE
    /\ UNCHANGED <<location, fromPath>>
    /\ Rerender
    /\ UNCHANGED <<formVars, listVars, fetching, isLoading, statusVars>>

\* The second effect of AuthProvider: without a user, away from /login, it
\* navigates to /login with the location in state.from; with a user on
\* /login it navigates to /dashboard.
AuthProvider_redirectEffect ==
    /\ ~authLoading
    /\ \/ /\ user = "null"
          /\ location # "/login"
          /\ location' = "/login"
          /\ fromPath' = location
       \/ /\ user # "null"
          /\ location = "/login"
          /\ location' = "/dashboard"
          /\ fromPath' = "none"
    /\ UNCHANGED <<authLoading, user, storedUser, storedToken>>
    /\ Rerender
    /\ UNCHANGED <<formVars, listVars, fetching, isLoading, statusVars>>

\* The effect of a rendered <Navigate>: to /login with the location in
\* state.from, or to /dashboard.
Navigate_effect ==
    /\ \/ /\ screen = "NavigateLogin"
          /\ location' = "/login"
          /\ fromPath' = location
       \/ /\ screen = "NavigateDashboard"
          /\ location' = "/dashboard"
          /\ fromPath' = "none"
    /\ UNCHANGED <<authLoading, user, storedUser, storedToken>>
    /\ Rerender
    /\ UNCHANGED <<formVars, listVars, fetching, isLoading, statusVars>>

\* login(userData, token), called by the login form after the server
\* accepted the credentials: state and storage are set, and the router goes
\* to state.from or to /dashboard.
AuthProvider_login ==
    /\ ~authLoading
    /\ screen = "LoginPage"
    /\ \E role \in Roles :
        /\ user' = role
        /\ storedUser' = role
    /\ storedToken' = TRUE
    /\ location' = IF fromPath # "none" THEN fromPath ELSE "/dashboard"
    /\ fromPath' = "none"
    /\ UNCHANGED authLoading
    /\ Rerender
    /\ UNCHANGED <<formVars, listVars, fetching, isLoading, statusVars>>

\* logout(), from the layout of a protected page.
AuthProvider_logout ==
    /\ screen \in ProtectedPages
    /\ user' = "null"
    /\ storedUser' = "null"
    /\ storedToken' = FALSE
    /\ location' = "/login"
    /\ fromPath' = "none"
    /\ UNCHANGED authLoading
    /\ Rerender
    /\ UNCHANGED <<formVars, listVars, fetching, isLoading, statusVars>>

\* A link of the layout, or the browser's back and forward buttons: the
\* router goes to another pathname.
Router_navigate ==
    /\ screen \in ProtectedPages
    /\ \E pathname \in Paths \ {location} : location' = pathname
    /\ fromPath' = "none"
    /\ UNCHANGED <<authLoading, user, storedUser, storedToken>>
    /\ Rerender
    /\ UNCHANGED <<formVars, listVars, fetching, isLoading, statusVars>>

\* The operator loads a URL or reloads: the app starts again, with the
\* storage as it is.
Browser_load ==
    /\ ~authLoading
    /\ \E pathname \in Paths : location' = pathname
    /\ authLoading' = TRUE
    /\ user' = "null"
    /\ fromPath' = "none"
    /\ UNCHANGED <<storedUser, storedToken>>
    /\ Rerender
    /\ UNCHANGED <<formVars, listVars, fetching, isLoading, statusVars>>

\* The app starts on any pathname with any content of the storage.
AuthInit ==
    /\ FormIdle
    /\ ListIdle
    /\ fetching = {}
    /\ isLoading = FALSE
    /\ StatusIdle
    /\ authLoading = TRUE
    /\ user = "null"
    /\ storedUser \in StoredUsers
    /\ storedToken \in BOOLEAN
    /\ location \in Paths
    /\ fromPath = "none"
    /\ screen = App_render(location, user, authLoading)

AuthNext ==
    \/ AuthProvider_mountEffect
    \/ AuthProvider_redirectEffect
    \/ Navigate_effect
    \/ AuthProvider_login
    \/ AuthProvider_logout
    \/ Router_navigate
    \/ Browser_load

AuthSpec == AuthInit /\ [][AuthNext]_vars
\* ------------------------------------------------------------------------
\* Properties
\* ------------------------------------------------------------------------
Rendered == page # "unmounted"

IsNumber(x) == x.t = "number" /\ ~x.nan

\* An empty or non-numeric form value.
Malformed(x) ==
    \/ x.t = "string" /\ x.lit \in {"empty", "junk"}
    \/ x.t = "number" /\ x.nan
    \/ x.t = "undefined"

Max(a, b) == IF a >= b THEN a ELSE b
Min(a, b) == IF a <= b THEN a ELSE b

\* The subtotal the mounted form computes for an item list.
PageSubtotal(p, its) ==
    CASE p = "createPage" -> CreateOrderPage_currentSubtotal(its)
      [] p = "createDialog" -> CreateOrderForm_currentSubtotal(its)
      [] p = "editForm" -> EditOrderForm_currentSubtotal(its)

\* The sum of quantity * unitPrice over a list of numeric items.
RECURSIVE SumOfProducts(_)
SumOfProducts(its) ==
    IF its = << >> THEN 0
    ELSE (Head(its).quantity.v * Head(its).unitPrice.v) \div Scale
         + SumOfProducts(Tail(its))

AllNonNegative(its) ==
    \A i \in 1..Len(its) :
        /\ IsNumber(its[i].quantity) /\ its[i].quantity.v >= 0
        /\ IsNumber(its[i].unitPrice) /\ its[i].unitPrice.v >= 0

\* The shipping input parsed as a number, 0 when empty or unparseable.
ParsedShippingFee(raw) ==
    LET parsed == JsParseFloat(raw) IN IF parsed.nan THEN 0 ELSE parsed.v

\* max(0, parsed shipping input)
ClampedShippingFee(raw) == Max(0, ParsedShippingFee(raw))

\* The discount value input parsed as a number.
ParsedDiscountValue == JsParseFloat(discountValueInput)

PositiveDiscountValue == IsNumber(ParsedDiscountValue) /\ ParsedDiscountValue.v > 0

\* C1: for every input, negative quantities and prices included,
\* 0 <= discountAmount <= subtotal.
C1_DiscountBetweenZeroAndSubtotal ==
    /\ IsNumber(discountAmount) /\ IsNumber(subtotal)
    /\ 0 <= discountAmount.v
    /\ discountAmount.v <= subtotal.v

\* C2: for every input totalAmount >= 0; neither a negative shipping fee
\* input nor a negative unit price makes the total negative.
C2_TotalNeverNegative == IsNumber(totalAmount) /\ totalAmount.v >= 0

\* C3: the shipping fee that enters the total is max(0, parsed shipping
\* input), and 0 for an absent or unparseable input.
C3_ShippingFeeClampedAtZero ==
    totalAmount.v =
        subtotal.v - discountAmount.v + ClampedShippingFee(shippingFeeInput)

\* C4: an item whose quantity is empty or non-numeric counts with quantity 1:
\* with unit price p it adds exactly p to the subtotal of the other items.
C4_MalformedQuantityCountsAsOne ==
    \A i \in 1..Len(items) :
        (Malformed(items[i].quantity) /\ IsNumber(items[i].unitPrice)) =>
            subtotal.v =
                PageSubtotal(page, RemoveAt(items, i)).v + items[i].unitPrice.v

\* C5: an item whose unitPrice is empty or non-numeric adds 0 to the
\* subtotal and leaves the other items' contributions as they are: the
\* subtotal equals the subtotal of the list without that item.
C5_MalformedPriceContributesZero ==
    Rendered =>
        \A i \in 1..Len(items) :
            Malformed(items[i].unitPrice) =>
                subtotal = PageSubtotal(page, RemoveAt(items, i))

C5_Witness ==
    /\ Rendered
    /\ Len(items) = 2
    /\ items[1].quantity = Num(2) /\ items[1].unitPrice = JunkStr
    /\ items[2].quantity = Num(1) /\ items[2].unitPrice = Num(50)
    /\ subtotal = Num(50)

\* C6: for items with non-negative quantity and unit price, subtotal is the
\* sum of quantity * unitPrice over the items, and is >= 0.
C6_SubtotalIsSumOfProducts ==
    (Rendered /\ AllNonNegative(items)) =>
        /\ IsNumber(subtotal)
        /\ subtotal.v = SumOfProducts(items)
        /\ subtotal.v >= 0

C6_Witness ==
    /\ Rendered
    /\ Len(items) = 2
    /\ items[1].quantity = Num(2) /\ items[1].unitPrice = Num(100)
    /\ items[2].quantity = Num(1) /\ items[2].unitPrice = Num(50)
    /\ subtotal = Num(250)

\* C7: for every input totalAmount = subtotal - discountAmount + shippingFee,
\* with discountAmount the clamped discount and shippingFee the shipping
\* input coerced to a number (0 when empty or unparseable).
C7_TotalIsSubtotalMinusDiscountPlusShipping ==
    Rendered =>
        /\ IsNumber(totalAmount)
        /\ totalAmount.v =
            subtotal.v - discountAmount.v + ParsedShippingFee(shippingFeeInput)

C7_Witness ==
    /\ Rendered
    /\ subtotal = Num(250)
    /\ discountType = "fixed" /\ discountValueInput = IntStr(100)
    /\ shippingFeeInput = IntStr(20)
    /\ discountAmount = Num(100)
    /\ totalAmount = Num(170)

C9_FixedDiscountIsMinOfValueAndSubtotal ==
    (discountType = "fixed" /\ PositiveDiscountValue) =>
        /\ discountAmount.v = Min(ParsedDiscountValue.v, subtotal.v)
        /\ (ParsedDiscountValue.v > subtotal.v =>
                totalAmount.v = ClampedShippingFee(shippingFeeInput))

C11_NonPositiveDiscountValueGivesNoDiscount ==
    (Rendered /\ discountType \in {"percentage", "fixed"}
              /\ ~PositiveDiscountValue) =>
        /\ discountAmount = Num(0)
        /\ totalAmount.v = subtotal.v + ParsedShippingFee(shippingFeeInput)

C11_Witness ==
    /\ page = "createDialog"
    /\ discountType = "percentage"
    /\ discountValueInput = IntStr(-5)
    /\ shippingFeeInput = IntStr(20)
    /\ subtotal = Num(250)
    /\ discountAmount = Num(0)
    /\ totalAmount = Num(270)

\* C12: whatever is empty, undefined or non-numeric among the unit prices,
\* the discount value and the shipping fee, subtotal, discountAmount and
\* totalAmount are finite numbers, never NaN.
C12_OutputsAreFiniteNumbers ==
    Rendered =>
        /\ IsNumber(subtotal)
        /\ IsNumber(discountAmount)
        /\ IsNumber(totalAmount)

C12_Witness ==
    /\ Rendered
    /\ Len(items) = 2
    /\ items[1].unitPrice = Undefined
    /\ items[2].unitPrice = JunkStr
    /\ discountType = "fixed"
    /\ discountValueInput = JunkStr
    /\ shippingFeeInput = JunkStr
    /\ totalAmount = Num(0)


\* C13: computing the pricing never throws, whatever the form holds; this
\* includes the form state that results from loading any draft JSON.parse
\* accepts, such as a draft without an items field.
C13_PricingNeverThrows == page # "crashed"

\* The useMemo of the mounted form applied to form values.
PageUseMemo(p, its, dt, dv, sh) ==
    CASE p = "createPage" -> CreateOrderPage_useMemo(its, dt, dv, sh)
      [] p = "editForm" -> EditOrderForm_useMemo(its, dt, dv, sh)

FormMounted == page \in {"createPage", "editForm"}

RequestInFlight == inFlight # NoRequest

\* C14: after every edit the displayed subtotal, discount and total are the
\* calculator's result on the current form values; no total is stale.
C14_DisplayedTotalsAreCurrent ==
    FormMounted =>
        LET memo == PageUseMemo(page, items, discountType, discountValueInput,
                                shippingFeeInput)
        IN  /\ subtotal = memo.subtotal
            /\ discountAmount = memo.discountAmount
            /\ totalAmount = memo.totalAmount

C14_Witness ==
    /\ page = "createPage"
    /\ forceUpdateCounter = 1
    /\ Len(items) = 1
    /\ items[1].quantity = Num(2)
    /\ items[1].unitPrice = Num(100)
    /\ subtotal = Num(200)
    /\ totalAmount = Num(200)

\* C15: in every create-order request the totalAmount and discountAmount
\* sent are the calculator's result for the items, discount type, discount
\* value and shipping fee sent with them.
C15_CreateRequestTotalsMatchFieldsSent ==
    inFlight.kind = "create" =>
        LET memo == CreateOrderPage_useMemo(inFlight.items, inFlight.discountType,
                                            inFlight.discountValue,
                                            inFlight.shippingFee)
        IN  /\ inFlight.totalAmount = memo.totalAmount
            /\ inFlight.discountAmount = memo.discountAmount

C15_Witness ==
    /\ inFlight.kind = "create"
    /\ Len(inFlight.items) = 1
    /\ inFlight.discountType = "percentage"
    /\ inFlight.discountValue = Num(10)
    /\ inFlight.shippingFee = Num(20)
    /\ inFlight.discountAmount = Num(10)
    /\ inFlight.totalAmount = Num(110)

\* C16: every submission payload, create and update, carries totalAmount and
\* discountAmount, and carries discountValue when a discount type is active.
C16_PayloadCarriesTotalsAndDiscountValue ==
    RequestInFlight =>
        /\ "totalAmount" \in DOMAIN inFlight
        /\ "discountAmount" \in DOMAIN inFlight
        /\ inFlight.discountType \in {"percentage", "fixed"} =>
               inFlight.discountValue.t = "number"

\* C17: a request is sent only for an order with at least one item, every
\* quantity at least 1, and a customer selected.
C17_RequestHasItemsQuantitiesAndCustomer ==
    RequestInFlight =>
        /\ Len(inFlight.items) >= 1
        /\ \A k \in DOMAIN inFlight.items :
               /\ IsNumber(inFlight.items[k].quantity)
               /\ inFlight.items[k].quantity.v >= 1 * Scale
        /\ inFlight.customerId # ""

C17_Witness ==
    /\ inFlight.kind = "update"
    /\ inFlight.customerId = "c1"
    /\ Len(inFlight.items) = 2
    /\ inFlight.items[1].quantity = Num(2)
    /\ inFlight.items[2].quantity = Num(1)

\* C18: every line item of a submitted order has a unit price that is not
\* negative, also after an operator has typed a negative price.
C18_SubmittedUnitPricesNonNegative ==
    RequestInFlight =>
        \A k \in DOMAIN inFlight.items :
            /\ IsNumber(inFlight.items[k].unitPrice)
            /\ inFlight.items[k].unitPrice.v >= 0

C18_Witness ==
    /\ page = "createPage"
    /\ customerId = "c1"
    /\ Len(items) = 1
    /\ items[1].quantity = Num(1)
    /\ items[1].unitPrice = Num(-10)
    /\ mutationStatus = "error"
    /\ requestCount = 1
    /\ ~ENABLED CreateOrderPage_handleSubmit

\* C19: two order-editing sessions open at the same time do not affect each
\* other: a step of the second session leaves the first session's form
\* values and totals, and the draft the first session restores, as they were.
C19_SessionsDoNotAffectEachOther ==
    [][(page = "createPage" /\ peerForm' # peerForm) =>
           /\ UNCHANGED <<items, discountType, discountValueInput,
                          shippingFeeInput, customerId, subtotal,
                          discountAmount, totalAmount>>
           /\ orderDraft' = orderDraft]_vars

\* C20: a submit sends its request exactly once; after a failure nothing is
\* sent again until the operator submits again.
C20_OneRequestPerSubmit ==
    [][/\ requestCount' \in {requestCount, requestCount + 1}
       /\ (requestCount' = requestCount + 1) <=>
              (mutationStatus # "pending" /\ mutationStatus' = "pending")
       /\ mutationStatus' = "error" => inFlight' = NoRequest]_vars

C20_Witness ==
    /\ page = "createPage"
    /\ mutationStatus = "error"
    /\ requestCount = 1
    /\ inFlight = NoRequest

\* C21: the create-order page, the create-order dialog and the edit-order
\* form compute the same subtotal, discountAmount and totalAmount from the
\* same items, discount value and shipping fee, with the edit form's type
\* 'none' standing for null or absent in the create forms.
C21_CalculatorsAgree ==
    page \in {"createPage", "createDialog", "editForm"} =>
        LET shown == [subtotal |-> subtotal, discountAmount |-> discountAmount,
                      totalAmount |-> totalAmount]
            createType == IF discountType = "none" THEN "null" ELSE discountType
            editType == IF discountType \in {"null", "undefined"} THEN "none"
                        ELSE discountType
        IN  /\ shown = CreateOrderPage_useMemo(items, createType,
                           discountValueInput, shippingFeeInput)
            /\ shown = CreateOrderForm_useMemo(items, createType,
                           discountValueInput, shippingFeeInput)
            /\ shown = EditOrderForm_useMemo(items, editType,
                           discountValueInput, shippingFeeInput)

C21_Witness ==
    /\ page = "editForm"
    /\ discountType = "none"
    /\ discountValueInput = IntStr(500)
    /\ shippingFeeInput = IntStr(-30)
    /\ subtotal = Num(250)
    /\ discountAmount = Num(0)
    /\ totalAmount = Num(220)

\* C22: computing the pricing again from identical items, discount type,
\* discount value and shipping fee gives identical subtotal, discountAmount
\* and totalAmount: the result does not depend on the recomputation counter
\* or on what was computed before.
C22_RecomputationWithSameInputsGivesSameTotals ==
    [][(/\ FormMounted
        /\ page' = page
        /\ items' = items
        /\ discountType' = discountType
        /\ discountValueInput' = discountValueInput
        /\ shippingFeeInput' = shippingFeeInput) =>
           UNCHANGED <<subtotal, discountAmount, totalAmount>>]_vars

C22_Witness ==
    /\ page = "createPage"
    /\ forceUpdateCounter = 2
    /\ Len(items) = 1
    /\ items[1].quantity = Num(1)
    /\ items[1].unitPrice = Num(100)
    /\ discountType = "null"
    /\ shippingFeeInput = EmptyStr
    /\ subtotal = Num(100)
    /\ totalAmount = Num(100)

\* C25: when an order has been created from the create-order page, no
\* 'order-draft' entry is left in local storage.
C25_NoDraftAfterCreation ==
    [][(page = "createPage" /\ mutationStatus = "pending" /\ page' = "orders") =>
           orderDraft' = Null]_vars

C25_Witness ==
    /\ page = "orders"
    /\ requestCount = 2
    /\ orderDraft = Null
    /\ inFlight = NoRequest

C27_AtMostOneRequestInFlight ==
    [][/\ requestCount' # requestCount => inFlight = NoRequest
       /\ inFlight' # NoRequest <=> mutationStatus' = "pending"]_vars

C27_Witness ==
    /\ page = "createPage"
    /\ mutationStatus = "pending"
    /\ inFlight.kind = "create"
    /\ requestCount = 1
    /\ editsInFlight = 1

\* C23: adding a product appends exactly one line item, with quantity 1 and
\* the name and the price the product has at that moment, and leaves the
\* items already in the order as they are; a later result of the product
\* query changes no line item.
C23_AddProductAppendsOneItem ==
    [][/\ (CreateOrderPage_addProduct \/ EditOrderForm_addProduct) =>
            /\ Len(items') = Len(items) + 1
            /\ SubSeq(items', 1, Len(items)) = items
            /\ \E product \in products :
                   LET item == items'[Len(items')]
                   IN  /\ item.productId = product._id
                       /\ item.productName = product.name
                       /\ item.unitPrice = product.price
                       /\ item.quantity = Num(1)
       /\ products' # products => items' = items]_vars

C23_Witness ==
    /\ products = RepricedProducts
    /\ Len(items) = 2
    /\ items[1].productId = "p1"
    /\ items[1].productName = "A"
    /\ items[1].unitPrice = Num(100)
    /\ items[2].productId = "p1"
    /\ items[2].productName = "A2"
    /\ items[2].unitPrice = Num(120)

\* The form values of the stored draft equal the form values of the session.
DraftFormFieldsMatch ==
    /\ orderDraft.customerId = customerId
    /\ orderDraft.items = DraftOf([customerId |-> customerId,
                                   customerDisplayValue |-> "",
                                   items |-> items,
                                   discountType |-> discountType,
                                   discountValueInput |-> discountValueInput,
                                   shippingFeeInput |-> shippingFeeInput]).items
    /\ orderDraft.discountType = discountType
    /\ orderDraft.discountValueInput = discountValueInput
    /\ orderDraft.shippingFeeInput = shippingFeeInput

\* C24: on the create-order page the stored draft matches the session: its
\* form fields equal the form values, and its customerDisplayValue equals
\* the customer name the selector shows.
C24_DraftMatchesSession ==
    (page = "createPage" /\ orderDraft.t = "draft") =>
        /\ DraftFormFieldsMatch
        /\ orderDraft.customerDisplayValue = customerDisplayValue

\* The part of C24 about the form fields alone.
C24_DraftFormFieldsMatchSession ==
    (page = "createPage" /\ orderDraft.t = "draft") => DraftFormFieldsMatch

\* The transitions the quick status action stands for.
QuickTransitions ==
    {<<"pending", "shipped">>, <<"processing", "shipped">>,
     <<"shipped", "completed">>}

\* C28: the quick status action only requests pending -> shipped,
\* processing -> shipped and shipped -> completed, and only from the
\* confirmed dialog with a target set; the statuses delivered, completed,
\* cancelled and returned send nothing, and cancelling sends nothing.
C28_QuickActionRequestsOnlyItsTransitions ==
    [][/\ statusRequestCount' # statusRequestCount =>
            /\ isAlertOpen
            /\ targetStatus # "null"
            /\ <<orderStatus, targetStatus>> \in QuickTransitions
            /\ [from |-> orderStatus, to |-> targetStatus, live |-> TRUE]
                   \in statusRequests'
       /\ OrderStatusActionButton_cancel =>
            statusRequestCount' = statusRequestCount
       /\ orderStatus \in {"delivered", "completed", "cancelled", "returned"} =>
            statusRequestCount' = statusRequestCount]_vars

\* The parts of C28 that do not depend on which status the row shows when
\* the dialog is confirmed.
C28_RequestsOnlyFromConfirmedDialog ==
    [][/\ statusRequestCount' # statusRequestCount =>
            /\ isAlertOpen
            /\ targetStatus \in {"shipped", "completed"}
            /\ orderStatus \in {"pending", "processing", "shipped"}
       /\ OrderStatusActionButton_cancel =>
            statusRequestCount' = statusRequestCount
       /\ orderStatus \in {"delivered", "completed", "cancelled", "returned"} =>
            statusRequestCount' = statusRequestCount]_vars

\* The delete request of the only order of a page after the first comes back
\* successfully; the page is the one the order was deleted on.
DeletedOnlyOrderOfPage(pageNumber) ==
    /\ serverTotal' = serverTotal - 1
    /\ \E closure \in deleting \ deleting' :
           /\ closure.ordersLength = 1
           /\ closure.currentPage = pageNumber
           /\ pageNumber > 1

\* C29: on the orders list currentPage is never below 1 and page navigation
\* never moves it above the known totalPages; applying or clearing filters
\* and changing the page size put it back to 1; deleting the only order of a
\* page after the first moves to the previous page.
C29_CurrentPageStaysInRange ==
    [][/\ currentPage' >= 1
       /\ OrdersPage_handlePageChange => currentPage' \in 1..totalPages
       /\ (\/ OrdersPage_handleApplyFilters
           \/ OrdersPage_handleClearFilters
           \/ OrdersPage_handleItemsPerPageChange) => currentPage' = 1
       /\ \A pageNumber \in 2..3 :
              DeletedOnlyOrderOfPage(pageNumber) =>
                  currentPage' = pageNumber - 1]_vars

\* The parts of C29 about navigation, filters and the page size.
C29_NavigationAndResets ==
    [][/\ OrdersPage_handlePageChange => currentPage' \in 1..totalPages
       /\ (\/ OrdersPage_handleApplyFilters
           \/ OrdersPage_handleClearFilters
           \/ OrdersPage_handleItemsPerPageChange) => currentPage' = 1]_vars

\* The part of C29 about the lower bound.
C29_CurrentPageAtLeastOne == currentPage >= 1

\* C30: a protected page is rendered only when auth loading has finished, a
\* user is present and, on an admin route, the user is an admin; after
\* logout, and after a start without a stored session, no protected page is
\* rendered; an employee never sees an admin page.
C30_ProtectedPagesNeedAnAllowedUser ==
    [][/\ screen' \in ProtectedPages =>
            /\ ~authLoading'
            /\ user' \in Roles
            /\ screen' \in AdminPages => user' = "admin"
       /\ AuthProvider_logout => screen' \notin ProtectedPages
       /\ (AuthProvider_mountEffect /\ (storedUser = "null" \/ ~storedToken)) =>
            /\ user' = "null"
            /\ screen' \notin ProtectedPages
       /\ user' = "employee" => screen' \notin AdminPages]_vars

C30_Witness ==
    /\ user = "employee"
    /\ ~authLoading
    /\ location = "/admin/users"
    /\ screen = "NavigateDashboard"
    /\ storedUser = "employee"
====
